---- MODULE Spec2Model ----
(***************************************************************************)
(* Adike Mitra: a Flask farm-management application (src/app.py,          *)
(* src/models.py, src/price_scraper.py) as a state machine.               *)
(*                                                                         *)
(* Units.  A classifier probability is an integer number of 1e-5          *)
(* (ProbScale = 1.0).  A confidence is an integer number of hundredths of *)
(* a percent (7500 = 75.00), the resolution of round(x, 2).  A price is   *)
(* an integer number of paise (hundredths of a rupee).  Time is counted   *)
(* in ticks, TicksPerDay ticks to a calendar day.                         *)
(***************************************************************************)
EXTENDS Integers, Sequences, FiniteSets, TLC

VARIABLES
    now,             \* the wall clock (get_ist_now / datetime.now), in ticks
    users,           \* table users, in id order
    session,         \* the Flask session of each client (browser)
    disease_models,  \* the classifiers loaded at startup (a set of keys)
    price_model,     \* TRUE iff the regression model was loaded at startup
    files,           \* the files present under static/uploads
    detections,      \* table disease_detections, in id order
    prices,          \* table market_prices, in id order
    pumps,           \* table pump_status, in id order
    irrigation_logs, \* table irrigation_logs, in id order
    settings,        \* table system_settings, in id order
    inflight,        \* per client: the request that has read and not yet written
    last             \* what the last handled request did and answered

vars == <<now, users, session, disease_models, price_model, files, detections, prices,
          pumps, irrigation_logs, settings, inflight, last>>

(***************************************************************************)
(* Bounds of the model and the input sets requests are drawn from.        *)
(***************************************************************************)
\* Rows of disease_detections the detection runs create.
MaxDetections == 1

ProbScale == 10 * 10000
\* A classifier or regression call that raises instead of returning.
Raise == 0 - 1
NoUser == 0
\* predict_disease's None (falsy, like an empty result).
NoPredictions == <<>>

Clients == {"c1", "c2"}
\* What a sigmoid classifier may return (0.2, 0.4, 0.5, 0.50004, 0.9, 0.90004).
ProbValues == {20000, 40000, 50000, 50004, 90000, 90004}
ClassifierKeys == {"yellow_leaf", "fruit_rot"}
ClassifierOutcomes == [ClassifierKeys -> ProbValues \cup {Raise}]
\* An uploaded image: decodable or not, and what each classifier would return on it.
Images == {[readable |-> FALSE, out |-> [k \in ClassifierKeys |-> Raise]]}
          \cup {[readable |-> TRUE, out |-> o] : o \in ClassifierOutcomes}
DetectionTypes == {"yellow_leaf", "fruit_rot", "both", "leaf_spot"}
\* random.randint(0, 100), at both sides of the cutoff.
RainChances == {60, 61}

(***************************************************************************)
(* Pure helpers.                                                           *)
(***************************************************************************)
\* Python round() of n/d to an integer: to nearest, an exact tie to even.
RoundHalfEven(n, d) ==
    LET q == n \div d
        r == n % d
    IN  IF 2 * r < d THEN q
        ELSE IF 2 * r > d THEN q + 1
        ELSE IF q % 2 = 0 THEN q ELSE q + 1

\* round(prob * 100, 2), in hundredths of a percent.
Round2Percent(prob) == RoundHalfEven(prob * 10000, ProbScale)

MaxOf(S) == CHOOSE x \in S : \A y \in S : y <= x

\* A file name is the sequence of its dot-separated segments:
\* "leaf.png" is <<"leaf", "png">>, "" is <<"">>, ".gif" is <<"", "gif">>.
ALLOWED_EXTENSIONS == {"png", "jpg", "jpeg", "gif"}

lower(s) ==
    CASE s = "PNG" -> "png"
      [] s = "JPG" -> "jpg"
      [] s = "JPEG" -> "jpeg"
      [] s = "GIF" -> "gif"
      [] s = "EXE" -> "exe"
      [] OTHER -> s

allowed_file_anysegment(filename) ==
    /\ Len(filename) >= 2
    /\ \E i \in 2..Len(filename) : lower(filename[i]) \in ALLOWED_EXTENSIONS

\* '.' in filename and filename.rsplit('.', 1)[1].lower() in ALLOWED_EXTENSIONS
allowed_file(filename) ==
    /\ Len(filename) >= 2
    /\ lower(filename[Len(filename)]) \in ALLOWED_EXTENSIONS

\* werkzeug's secure_filename: whitespace becomes "_", leading and trailing
\* dots are stripped.
SecureSegment(s) == IF s = "my leaf" THEN "my_leaf" ELSE s

RECURSIVE StripDots(_)
StripDots(name) ==
    IF name = <<>> THEN name
    ELSE IF Head(name) = "" THEN StripDots(Tail(name))
    ELSE IF name[Len(name)] = "" THEN StripDots(SubSeq(name, 1, Len(name) - 1))
    ELSE name

secure_filename(filename) ==
    StripDots([i \in 1..Len(filename) |-> SecureSegment(filename[i])])

\* f"{session['user_id']}_{timestamp}_{filename}" under UPLOAD_FOLDER; the
\* timestamp has the resolution of the clock.
UploadPath(uid, t, filename) == [user_id |-> uid, timestamp |-> t, name |-> filename]

(***************************************************************************)
(* Image Classifier Adapter: predict_disease.                              *)
(***************************************************************************)
\* validate_image_content: every path returns (True, 75.0, bypassed).
validate_image_content ==
    [key |-> "validation", is_valid |-> TRUE, confidence |-> 7500,
     reason |-> "Image validation bypassed - user responsibility"]

InfectedName(key) ==
    IF key = "yellow_leaf" THEN "Yellow Leaf Disease" ELSE "Fruit Rot (Koleroga)"

HealthyName(key) ==
    IF key = "yellow_leaf" THEN "Healthy Leaf" ELSE "Healthy Fruit"

ClassifierResult_atleast(key, prob) ==
    IF 2 * prob >= ProbScale
    THEN [key |-> key, disease |-> InfectedName(key),
          confidence |-> Round2Percent(prob), status |-> "Infected"]
    ELSE [key |-> key, disease |-> HealthyName(key),
          confidence |-> Round2Percent(ProbScale - prob), status |-> "Healthy"]

\* The per-model result built from the probability a classifier returned.
ClassifierResult(key, prob) ==
    IF 2 * prob > ProbScale
    THEN [key |-> key, disease |-> InfectedName(key),
          confidence |-> Round2Percent(prob), status |-> "Infected"]
    ELSE [key |-> key, disease |-> HealthyName(key),
          confidence |-> Round2Percent(ProbScale - prob), status |-> "Healthy"]

\* Whether predict_disease reaches the classifier's predict call.
Requested(key, detection_type) ==
    /\ detection_type \in {key, "both"}
    /\ key \in disease_models

\* The classifiers whose predict is called on the image.
Invoked(image, detection_type) ==
    IF ~image.readable THEN {}
    ELSE {k \in ClassifierKeys :
            /\ Requested(k, detection_type)
            /\ \/ k = "yellow_leaf"
               \/ ~Requested("yellow_leaf", detection_type)
               \/ image.out["yellow_leaf"] # Raise}

\* predict_disease: the results in insertion order (validation, yellow_leaf,
\* fruit_rot), or NoPredictions when anything raised.
predict_disease(image, detection_type) ==
    IF ~image.readable THEN NoPredictions
    ELSE IF \E k \in Invoked(image, detection_type) : image.out[k] = Raise
    THEN NoPredictions
    ELSE <<validate_image_content>>
         \o (IF Requested("yellow_leaf", detection_type)
             THEN <<ClassifierResult("yellow_leaf", image.out["yellow_leaf"])>>
             ELSE <<>>)
         \o (IF Requested("fruit_rot", detection_type)
             THEN <<ClassifierResult("fruit_rot", image.out["fruit_rot"])>>
             ELSE <<>>)

\* get_disease_recommendation: the severity tier and the treatment text.
get_disease_recommendation(disease_name, confidence) ==
    CASE disease_name = "Yellow Leaf Disease" ->
            [treatment |-> "Bordeaux mixture",
             severity |-> IF confidence > 8500 THEN "moderate" ELSE "mild"]
      [] disease_name = "Fruit Rot (Koleroga)" ->
            [treatment |-> "Carbendazim",
             severity |-> IF confidence > 9000 THEN "severe" ELSE "moderate"]
      [] OTHER ->
            [treatment |-> "No treatment required", severity |-> "None"]

(***************************************************************************)
(* Detection Workflow: disease_detection.                                  *)
(***************************************************************************)
NoDisease == ""

RECURSIVE PrimaryScan_atleast(_, _, _)
PrimaryScan_atleast(predictions, primary_disease, max_confidence) ==
    IF predictions = <<>>
    THEN [disease |-> primary_disease, confidence |-> max_confidence]
    ELSE LET pred_data == Head(predictions) IN
         IF /\ pred_data.key # "validation"
            /\ pred_data.status = "Infected"
            /\ pred_data.confidence >= max_confidence
         THEN PrimaryScan_atleast(Tail(predictions), pred_data.disease, pred_data.confidence)
         ELSE PrimaryScan_atleast(Tail(predictions), primary_disease, max_confidence)

\* The loop over predictions.items(): the infected result of highest
\* confidence, the earlier one on a tie.
RECURSIVE PrimaryScan(_, _, _)
PrimaryScan(predictions, primary_disease, max_confidence) ==
    IF predictions = <<>>
    THEN [disease |-> primary_disease, confidence |-> max_confidence]
    ELSE LET pred_data == Head(predictions) IN
         IF /\ pred_data.key # "validation"
            /\ pred_data.status = "Infected"
            /\ pred_data.confidence > max_confidence
         THEN PrimaryScan(Tail(predictions), pred_data.disease, pred_data.confidence)
         ELSE PrimaryScan(Tail(predictions), primary_disease, max_confidence)

\* max(pred['confidence'] for pred in predictions.values()
\*     if isinstance(pred, dict) and 'confidence' in pred)
AllHealthyConfidence(predictions) ==
    MaxOf({predictions[i].confidence : i \in 1..Len(predictions)})

\* The primary disease and the confidence that are persisted.
PrimaryResult(predictions) ==
    LET scan == PrimaryScan(predictions, NoDisease, 0) IN
    IF scan.disease = NoDisease
    THEN [disease |-> "Healthy", confidence |-> AllHealthyConfidence(predictions)]
    ELSE scan

WeatherWarning(rain_chance) ==
    IF rain_chance > 60 THEN "Do not spray today" ELSE "Weather is favorable"

\* The id the store gives a new row: one past the largest id in the table.
NextId(table) ==
    IF table = <<>> THEN 1 ELSE MaxOf({table[i].id : i \in 1..Len(table)}) + 1

\* The answer of a disease_detection request to form req: the flash or
\* redirect it ends with, the classifiers it invoked, the probabilities they
\* returned, predict_disease's result, the path written and the row created.
DetectionAnswer(c, req, outcome, invoked, probs, predictions, path, detection_id) ==
    [op |-> "disease_detection", client |-> c, has_image |-> req.has_image,
     filename |-> req.filename, detection_type |-> req.detection_type,
     outcome |-> outcome, invoked |-> invoked, probs |-> probs,
     predictions |-> predictions, path |-> path, detection_id |-> detection_id]

RemoveUpload_keep(stored, filepath) == stored

\* if os.path.exists(filepath): os.remove(filepath)
RemoveUpload(stored, filepath) == stored \ {filepath}

NoPath == UploadPath(NoUser, 0, <<>>)

\* The model creates at most MaxDetections rows.
MayCreateDetection == Len(detections) < MaxDetections

\* POST /disease-detection by client c with form req.  The columns location
\* and detected_at are copied from the request and the clock and read by no
\* operation; they are left out of the row.
disease_detection(c, req) ==
    LET uid == session[c].user_id
        filepath == UploadPath(uid, now, secure_filename(req.filename))
        invoked == Invoked(req.image, req.detection_type)
        probs == [k \in {k \in invoked : req.image.out[k] # Raise} |-> req.image.out[k]]
        predictions == predict_disease(req.image, req.detection_type)
        primary == PrimaryResult(predictions)
        recommendation_data == get_disease_recommendation(primary.disease, primary.confidence)
        detection == [id |-> NextId(detections),
                      user_id |-> uid,
                      image_path |-> filepath,
                      disease_name |-> primary.disease,
                      severity |-> recommendation_data.severity,
                      confidence |-> primary.confidence,
                      recommendation |-> recommendation_data.treatment,
                      weather_warning |-> WeatherWarning(req.rain_chance)]
        Rejected(outcome) ==
            /\ last' = DetectionAnswer(c, req, outcome, {}, <<>>, NoPredictions, NoPath, 0)
            /\ UNCHANGED <<files, detections>>
    IN
    /\ IF uid = NoUser THEN Rejected("login_required")
       ELSE IF ~req.has_image THEN Rejected("no_image_uploaded")
       ELSE IF req.filename = <<"">> THEN Rejected("no_image_selected")
       ELSE IF ~allowed_file(req.filename) THEN Rejected("invalid_file_type")
       ELSE IF predictions = NoPredictions
       THEN \* file.save(filepath), then os.remove(filepath)
            /\ files' = RemoveUpload(files \cup {filepath}, filepath)
            /\ UNCHANGED detections
            /\ last' = DetectionAnswer(c, req, "error_processing_image", invoked, probs,
                                       NoPredictions, filepath, 0)
       ELSE /\ MayCreateDetection
            /\ files' = files \cup {filepath}
            /\ detections' = Append(detections, detection)
            /\ last' = DetectionAnswer(c, req, "detection_result", invoked, probs,
                                       predictions, filepath, detection.id)
    /\ UNCHANGED <<now, users, session, disease_models, price_model, prices, pumps, irrigation_logs, settings, inflight>>

(***************************************************************************)
(* Credential Store and sessions: login, logout, the route guards.         *)
(***************************************************************************)
\* generate_password_hash: a salted hash, which check_password_hash verifies
\* against the password it was made from.
generate_password_hash(password) == [hash_of |-> password]

check_password_hash_any(password_hash, password) == TRUE

check_password_hash(password_hash, password) == password_hash.hash_of = password

\* A session without the key user_id.
AnonymousSession == [user_id |-> NoUser, user_name |-> "", user_type |-> ""]

UserByPhone(phone) == {i \in 1..Len(users) : users[i].phone = phone}

UserById(id) == users[CHOOSE i \in 1..Len(users) : users[i].id = id]

\* POST /login
login(c, phone, password) ==
    /\ IF /\ UserByPhone(phone) # {}
          /\ LET user == users[CHOOSE i \in UserByPhone(phone) : TRUE]
             IN  check_password_hash(user.password_hash, password)
       THEN LET user == users[CHOOSE i \in UserByPhone(phone) : TRUE] IN
            /\ session' = [session EXCEPT ![c] =
                              [user_id |-> user.id, user_name |-> user.name,
                               user_type |-> user.user_type]]
            /\ last' = [op |-> "login", client |-> c, phone |-> phone,
                        password |-> password, outcome |-> "welcome_back"]
       ELSE /\ UNCHANGED session
            /\ last' = [op |-> "login", client |-> c, phone |-> phone,
                        password |-> password, outcome |-> "invalid_credentials"]
    /\ UNCHANGED <<now, users, disease_models, price_model, files, detections, prices, pumps, irrigation_logs,
                   settings, inflight>>

\* GET /logout
logout(c) ==
    /\ session' = [session EXCEPT ![c] = AnonymousSession]
    /\ last' = [op |-> "logout", client |-> c, outcome |-> "logged_out"]
    /\ UNCHANGED <<now, users, disease_models, price_model, files, detections, prices, pumps, irrigation_logs,
                   settings, inflight>>

\* login_required lets the request through.
LoggedIn(c) == session[c].user_id # NoUser

IsAdmin_anyuser(c) == LoggedIn(c)

\* admin_required lets the request through.
IsAdmin(c) == LoggedIn(c) /\ UserById(session[c].user_id).user_type = "Developer"

(***************************************************************************)
(* Accounts: registration and the profile page.                            *)
(***************************************************************************)
\* Rows of users.
MaxUsers == 2

PhoneLength == 10

MinPasswordLength == 6

\* The characters str.isdigit accepts, as far as the forms below use them.
DigitChars == {"0", "1", "2", "3", "4", "5", "6", "7", "8", "9"}

\* str.isdigit: at least one character, and every character a digit.
isdigit(s) == Len(s) > 0 /\ \A i \in 1..Len(s) : s[i] \in DigitChars

\* A phone is the sequence of its characters; this one is well formed and
\* ends in d.
PhoneEnding(d) ==
    [i \in 1..PhoneLength |-> IF i = 1 THEN "9" ELSE IF i = PhoneLength THEN d ELSE "0"]

\* len() of the passwords the forms below submit.
len(password) ==
    CASE password = "secret1" -> 7
      [] password = "secret2" -> 7
      [] password = "wrong1" -> 6
      [] password = "short" -> 5
      [] OTHER -> 0

\* The column email holds NULL (no element) or one address.
NoEmail == {}

UserByEmail(email) == {i \in 1..Len(users) : users[i].email = {email}}

\* Query.first() on a filter: the row of lowest id.
First(found) == CHOOSE i \in found : \A j \in found : i <= j

RegisterAnswer(c, form, outcome) ==
    [op |-> "register", client |-> c, form |-> form, outcome |-> outcome]

PhoneTaken_never(phone) == FALSE

\* User.query.filter_by(phone=phone).first() is truthy.
PhoneTaken(phone) == UserByPhone(phone) # {}

MayCreateUser == Len(users) < MaxUsers

\* POST /register
register(c, form) ==
    /\ IF form.phone = <<>> \/ form.name = "" \/ form.user_type = "" \/ form.password = ""
       THEN /\ UNCHANGED users
            /\ last' = RegisterAnswer(c, form, "fill_required")
       ELSE IF Len(form.phone) # PhoneLength \/ ~isdigit(form.phone)
       THEN /\ UNCHANGED users
            /\ last' = RegisterAnswer(c, form, "phone_must_be_10_digits")
       ELSE IF form.password # form.confirm_password
       THEN /\ UNCHANGED users
            /\ last' = RegisterAnswer(c, form, "passwords_do_not_match")
       ELSE IF PhoneTaken(form.phone)
       THEN /\ UNCHANGED users
            /\ last' = RegisterAnswer(c, form, "phone_registered")
       ELSE IF form.email # "" /\ UserByEmail(form.email) # {}
       THEN /\ UNCHANGED users
            /\ last' = RegisterAnswer(c, form, "email_registered")
       ELSE /\ MayCreateUser
            /\ users' = Append(users,
                  [id |-> NextId(users), phone |-> form.phone,
                   email |-> IF form.email # "" THEN {form.email} ELSE NoEmail,
                   name |-> form.name, location |-> form.location,
                   farm_size |-> form.farm_size, user_type |-> form.user_type,
                   password_hash |-> generate_password_hash(form.password)])
            /\ last' = RegisterAnswer(c, form, "registered")
    /\ UNCHANGED <<now, session, disease_models, price_model, files, detections, prices,
                   pumps, irrigation_logs, settings, inflight>>

ProfileAnswer(c, form, outcome) ==
    [op |-> "profile", client |-> c, form |-> form, outcome |-> outcome]

EmailOfAnother_never(email, user) == FALSE

\* existing_user and existing_user.id != user.id
EmailOfAnother(email, user) ==
    /\ UserByEmail(email) # {}
    /\ users[First(UserByEmail(email))].id # user.id

\* POST /profile
profile(c, form) ==
    /\ IF ~LoggedIn(c)
       THEN /\ UNCHANGED users
            /\ last' = ProfileAnswer(c, form, "login_required")
       ELSE LET i == CHOOSE j \in 1..Len(users) : users[j].id = session[c].user_id
                user == users[i]
            IN
            IF form.action = "update_profile"
            THEN IF form.email # "" /\ EmailOfAnother(form.email, user)
                 THEN \* user.name was assigned and is not committed
                      /\ UNCHANGED users
                      /\ last' = ProfileAnswer(c, form, "email_in_use")
                 ELSE /\ users' = [users EXCEPT ![i] =
                            [user EXCEPT
                               !.name = IF form.name # "" THEN form.name ELSE @,
                               !.email = IF form.email # "" THEN {form.email} ELSE @,
                               !.location = form.location,
                               !.farm_size = form.farm_size]]
                      /\ last' = ProfileAnswer(c, form, "profile_updated")
            ELSE IF form.action = "change_password"
            THEN IF ~check_password_hash(user.password_hash, form.current_password)
                 THEN /\ UNCHANGED users
                      /\ last' = ProfileAnswer(c, form, "current_password_incorrect")
                 ELSE IF form.new_password # form.confirm_password
                 THEN /\ UNCHANGED users
                      /\ last' = ProfileAnswer(c, form, "new_passwords_do_not_match")
                 ELSE IF len(form.new_password) < MinPasswordLength
                 THEN /\ UNCHANGED users
                      /\ last' = ProfileAnswer(c, form, "password_too_short")
                 ELSE /\ users' = [users EXCEPT ![i] =
                            [user EXCEPT !.password_hash =
                                generate_password_hash(form.new_password)]]
                      /\ last' = ProfileAnswer(c, form, "password_changed")
            ELSE /\ UNCHANGED users
                 /\ last' = ProfileAnswer(c, form, "profile_page")
    /\ UNCHANGED <<now, session, disease_models, price_model, files, detections, prices,
                   pumps, irrigation_logs, settings, inflight>>

(***************************************************************************)
(* Price Source Adapter and Market Price Maintenance.                      *)
(***************************************************************************)
\* Ticks of the clock in a calendar day.
TicksPerDay == 2
\* The clock stops at this tick.
MaxTick == 5
\* Rows of market_prices created after the seeding.
MaxNewPrices == 2

SeedDays == 30

Day(t) == t \div TicksPerDay

\* timedelta.days of (later - earlier): whole 24-hour periods, floored.
ElapsedDays(later, earlier) == (later - earlier) \div TicksPerDay

\* What the adapter call yields when the fetch fails (falsy).
NoData == [red_arecanut_price |-> 0, white_arecanut_price |-> 0, failed |-> TRUE]

scrape_mangalore_prices ==
    [red_arecanut_price |-> 15000, white_arecanut_price |-> 16000]

get_fallback_prices ==
    [red_arecanut_price |-> 14500, white_arecanut_price |-> 15500]

\* The adapter as its caller sees it: the data, or nothing when the fetch fails.
Scrape(fetch_ok) == IF fetch_ok THEN scrape_mangalore_prices ELSE NoData

\* random.uniform(0.95, 1.05) for each of the 30 seeded days, in thousandths.
SeedVariations ==
    {[i \in 1..SeedDays |-> 1000],
     [i \in 1..SeedDays |-> IF i % 2 = 0 THEN 950 ELSE 1050],
     [i \in 1..SeedDays |-> 950 + ((i * 37) % 101)]}

\* The startup seeding of an empty market_prices table at time t.
SeededPrices(t, real_prices, variation) ==
    [k \in 1..SeedDays |->
        [id |-> k,
         source |-> "CAMPCO Mangalore",
         red_arecanut_price |->
            RoundHalfEven(real_prices.red_arecanut_price * variation[k], 1000),
         white_arecanut_price |->
            RoundHalfEven(real_prices.white_arecanut_price * variation[k], 1000),
         grade |-> "Grade A",
         date |-> t - (SeedDays + 1 - k) * TicksPerDay]]

\* MarketPrice.query.order_by(MarketPrice.date.desc()).first(): a row of the
\* latest date.
LatestPrices == {i \in 1..Len(prices) : \A j \in 1..Len(prices) : prices[j].date <= prices[i].date}

TodayStart == Day(now) * TicksPerDay

\* MarketPrice.query.filter(MarketPrice.date >= today_start).first(): the
\* first such row in id order, 0 when there is none.
ExistingPrice_none(table) == 0

ExistingPrice(table) ==
    IF \E i \in 1..Len(table) : table[i].date >= TodayStart
    THEN CHOOSE i \in 1..Len(table) :
            /\ table[i].date >= TodayStart
            /\ \A j \in 1..(i - 1) : table[j].date < TodayStart
    ELSE 0

\* The prices a refresh stores: the adapter's, or the fallback table tagged
\* with the degraded source.
ScrapedData(scraped) ==
    IF scraped = NoData
    THEN [red_arecanut_price |-> get_fallback_prices.red_arecanut_price,
          white_arecanut_price |-> get_fallback_prices.white_arecanut_price,
          source |-> "fallback - scraping failed"]
    ELSE scraped

\* update_market_prices: the table after the refresh.
UpdatedPrices(scraped) ==
    LET scraped_data == ScrapedData(scraped)
        existing_price == ExistingPrice(prices)
    IN  IF existing_price # 0
        THEN [prices EXCEPT ![existing_price] =
                [@ EXCEPT !.red_arecanut_price = scraped_data.red_arecanut_price,
                          !.white_arecanut_price = scraped_data.white_arecanut_price,
                          !.date = now]]
        ELSE Append(prices,
                [id |-> NextId(prices),
                 source |-> "CAMPCO Mangalore",
                 red_arecanut_price |-> scraped_data.red_arecanut_price,
                 white_arecanut_price |-> scraped_data.white_arecanut_price,
                 grade |-> "Grade A",
                 date |-> now])

\* update_market_prices: the dict it returns.
UpdateResult(scraped) ==
    [success |-> TRUE,
     action |-> IF ExistingPrice(prices) # 0 THEN "updated" ELSE "created",
     data |-> ScrapedData(scraped)]

NoResult == [success |-> FALSE, action |-> "none", data |-> NoData]

\* The model creates at most MaxNewPrices rows after the seeding.
MayCreatePrice == Len(prices) < SeedDays + MaxNewPrices

Stale_calendar(latest_date) == Day(now) - Day(latest_date) >= 1

\* days_old = (get_ist_now() - latest_date).days; days_old >= 1
Stale(latest_date) == ElapsedDays(now, latest_date) >= 1

\* GET /market-prices
market_prices(c, fetch_ok) ==
    LET refresh == \/ prices = <<>>
                   \/ \E i \in LatestPrices : Stale(prices[i].date)
    IN
    /\ IF ~LoggedIn(c)
       THEN /\ UNCHANGED prices
            /\ last' = [op |-> "market_prices", client |-> c, outcome |-> "login_required",
                        refreshed |-> FALSE, fetch_ok |-> fetch_ok, result |-> NoResult]
       ELSE IF refresh
       THEN /\ ExistingPrice(prices) = 0 => MayCreatePrice
            /\ prices' = UpdatedPrices(Scrape(fetch_ok))
            /\ last' = [op |-> "market_prices", client |-> c, outcome |-> "rendered",
                        refreshed |-> TRUE, fetch_ok |-> fetch_ok,
                        result |-> UpdateResult(Scrape(fetch_ok))]
       ELSE /\ UNCHANGED prices
            /\ last' = [op |-> "market_prices", client |-> c, outcome |-> "rendered",
                        refreshed |-> FALSE, fetch_ok |-> fetch_ok, result |-> NoResult]
    /\ UNCHANGED <<now, users, session, disease_models, price_model, files, detections, pumps, irrigation_logs,
                   settings, inflight>>

\* POST /update-prices
update_prices_route(c, fetch_ok) ==
    /\ IF ~LoggedIn(c)
       THEN /\ UNCHANGED prices
            /\ last' = [op |-> "update_prices_route", client |-> c,
                        outcome |-> "login_required", refreshed |-> FALSE,
                        fetch_ok |-> fetch_ok, result |-> NoResult]
       ELSE /\ ExistingPrice(prices) = 0 => MayCreatePrice
            /\ prices' = UpdatedPrices(Scrape(fetch_ok))
            /\ last' = [op |-> "update_prices_route", client |-> c, outcome |-> "json",
                        refreshed |-> TRUE, fetch_ok |-> fetch_ok,
                        result |-> UpdateResult(Scrape(fetch_ok))]
    /\ UNCHANGED <<now, users, session, disease_models, price_model, files, detections, pumps, irrigation_logs,
                   settings, inflight>>

\* POST /admin/update-prices: the row's date is the column default, the clock.
update_prices(c, source, red_price, white_price, grade) ==
    /\ IF ~LoggedIn(c)
       THEN /\ UNCHANGED prices
            /\ last' = [op |-> "update_prices", client |-> c, outcome |-> "login_required"]
       ELSE IF ~IsAdmin(c)
       THEN /\ UNCHANGED prices
            /\ last' = [op |-> "update_prices", client |-> c, outcome |-> "access_denied"]
       ELSE /\ MayCreatePrice
            /\ prices' = Append(prices,
                            [id |-> NextId(prices), source |-> source,
                             red_arecanut_price |-> red_price,
                             white_arecanut_price |-> white_price,
                             grade |-> grade, date |-> now])
            /\ last' = [op |-> "update_prices", client |-> c, outcome |-> "updated"]
    /\ UNCHANGED <<now, users, session, disease_models, price_model, files, detections, pumps, irrigation_logs,
                   settings, inflight>>

\* The clock advances by one tick.
Tick ==
    /\ now < MaxTick
    /\ now' = now + 1
    /\ last' = [op |-> "tick", client |-> "", outcome |-> ""]
    /\ UNCHANGED <<users, session, disease_models, price_model, files, detections, prices, pumps, irrigation_logs,
                   settings, inflight>>

(***************************************************************************)
(* Price Forecaster: /price-prediction.                                    *)
(* A regression output is a rational number of paise, num/den, so that the *)
(* roundings of the red and of the white price are those of the code.      *)
(***************************************************************************)
\* timedelta(days=30): the window of the historical prices.
HistoryDays == 30
\* len(historical_prices) >= 14: the lag features need 14 points.
MinHistory == 14
\* range(1, 16): the days forecast.
ForecastDays == 15
\* historical_prices[-7:]: the rows the recent average is taken over.
RecentRows == 7
\* red_pred < 100 or red_pred > 1000, in paise.
LowestRealistic == 10000
HighestRealistic == 100000
\* white_pred = red_pred * 1.15, in hundredths.
WhitePremium == 115

\* What price_model.predict does on one call: it returns num/den, or raises.
Returns(n, d) == [raised |-> FALSE, num |-> n, den |-> d]

Raises == [raised |-> TRUE, num |-> 0, den |-> 1]

\* The regressor is opaque: what its 15 calls of one request would do.
RegressionOutputs ==
    LET inside == [i \in 1..ForecastDays |-> Returns(15200, 1)]
    IN  {inside,
         [i \in 1..ForecastDays |-> Returns(100000 + 39 * i, 10)],
         [inside EXCEPT ![3] = Returns(9999, 1)],
         [inside EXCEPT ![1] = Returns(LowestRealistic, 1),
                        ![ForecastDays] = Returns(HighestRealistic, 1)],
         [inside EXCEPT ![ForecastDays] = Returns(HighestRealistic + 1, 1)],
         [inside EXCEPT ![1] = Raises],
         [inside EXCEPT ![8] = Raises],
         [inside EXCEPT ![ForecastDays] = Raises]}

\* np.random.uniform(-0.02, 0.02) of each step, in hundredths.
ClampNoises ==
    {[i \in 1..ForecastDays |-> 2],
     [i \in 1..ForecastDays |-> IF i % 2 = 0 THEN 1 ELSE 0 - 2]}

\* random.uniform(-20, 30) of each day, for the red and for the white price,
\* in paise.
FallbackNoises ==
    {[red |-> [i \in 1..ForecastDays |-> 0], white |-> [i \in 1..ForecastDays |-> 0]],
     [red |-> [i \in 1..ForecastDays |-> 3000],
      white |-> [i \in 1..ForecastDays |-> 0 - 2000]],
     [red |-> [i \in 1..ForecastDays |-> IF i % 2 = 0 THEN 1250 ELSE 0 - 2000],
      white |-> [i \in 1..ForecastDays |-> ((i * 700) % 5001) - 2000]]}

\* order_by(MarketPrice.date): rows of one date stay in id order.
RECURSIVE InsertByDate(_, _)
InsertByDate(row, rows) ==
    IF rows = <<>> THEN <<row>>
    ELSE IF rows[Len(rows)].date <= row.date THEN Append(rows, row)
    ELSE Append(InsertByDate(row, SubSeq(rows, 1, Len(rows) - 1)), rows[Len(rows)])

RECURSIVE OrderByDate(_)
OrderByDate(rows) ==
    IF rows = <<>> THEN <<>>
    ELSE InsertByDate(rows[Len(rows)], OrderByDate(SubSeq(rows, 1, Len(rows) - 1)))

InWindow(p) == p.date >= now - HistoryDays * TicksPerDay

\* MarketPrice.query.filter(MarketPrice.date >= thirty_days_ago)
\*                  .order_by(MarketPrice.date).all()
HistoricalPrices == OrderByDate(SelectSeq(prices, InWindow))

\* The sum and the number of the red prices of rows[-7:].
RECURSIVE SumRed(_, _)
SumRed(rows, k) ==
    IF k = 0 \/ rows = <<>> THEN 0
    ELSE rows[Len(rows)].red_arecanut_price + SumRed(SubSeq(rows, 1, Len(rows) - 1), k - 1)

RecentCount(rows) == IF Len(rows) < RecentRows THEN Len(rows) ELSE RecentRows

\* pred_date.strftime('%Y-%m-%d') of now + i days.
PredDate(i) == Day(now + i * TicksPerDay)

ClampedPrediction_above(red_pred, historical_prices, noise) ==
    IF red_pred.num > HighestRealistic * red_pred.den
    THEN Returns(SumRed(historical_prices, RecentRows) * (100 + noise),
                 RecentCount(historical_prices) * 100)
    ELSE red_pred

\* The clamp: an output outside [100, 1000] becomes recent_avg * (1 + noise).
ClampedPrediction(red_pred, historical_prices, noise) ==
    IF red_pred.num < LowestRealistic * red_pred.den
       \/ red_pred.num > HighestRealistic * red_pred.den
    THEN Returns(SumRed(historical_prices, RecentRows) * (100 + noise),
                 RecentCount(historical_prices) * 100)
    ELSE red_pred

RegressionEntry_flatpremium(i, red_pred) ==
    [date |-> PredDate(i),
     red |-> RoundHalfEven(red_pred.num, red_pred.den),
     white |-> RoundHalfEven(red_pred.num, red_pred.den) + 1000]

\* One entry of the regression path: red and white rounded to the paisa.
RegressionEntry(i, red_pred) ==
    [date |-> PredDate(i),
     red |-> RoundHalfEven(red_pred.num, red_pred.den),
     white |-> RoundHalfEven(red_pred.num * WhitePremium, red_pred.den * 100)]

\* The loop of the regression path from step i on: it ends after step 15, or
\* at the step whose predict call raises.  calls counts the predict calls.
RECURSIVE RegressionLoop(_, _, _, _, _)
RegressionLoop(i, predictions, historical_prices, outputs, noise) ==
    IF i > ForecastDays
    THEN [raised |-> FALSE, calls |-> i - 1, predictions |-> predictions]
    ELSE IF outputs[i].raised
    THEN [raised |-> TRUE, calls |-> i, predictions |-> predictions]
    ELSE RegressionLoop(i + 1,
            Append(predictions,
                   RegressionEntry(i, ClampedPrediction(outputs[i], historical_prices,
                                                        noise[i]))),
            historical_prices, outputs, noise)

generate_simple_predictions(historical_prices, fallback_noise) ==
    IF historical_prices = <<>> THEN <<>>
    ELSE LET last_price == historical_prices[Len(historical_prices)] IN
         [i \in 1..ForecastDays |->
            [date |-> PredDate(i),
             red |-> last_price.red_arecanut_price + fallback_noise.red[i],
             white |-> last_price.white_arecanut_price + fallback_noise.white[i]]]

FallbackAfterError_extend(predictions, historical_prices, fallback_noise) ==
    predictions \o generate_simple_predictions(historical_prices, fallback_noise)

\* except Exception: predictions = generate_simple_predictions(historical_prices)
FallbackAfterError(predictions, historical_prices, fallback_noise) ==
    generate_simple_predictions(historical_prices, fallback_noise)

UsesRegression_anylength(historical_prices) ==
    price_model /\ historical_prices # <<>>

\* price_model and historical_prices and len(historical_prices) >= 14
UsesRegression(historical_prices) ==
    price_model /\ historical_prices # <<>> /\ Len(historical_prices) >= MinHistory

\* GET /price-prediction
price_prediction(c, outputs, clamp_noise, fallback_noise) ==
    LET historical_prices == HistoricalPrices
        run == RegressionLoop(1, <<>>, historical_prices, outputs, clamp_noise)
    IN
    /\ IF ~LoggedIn(c)
       THEN last' = [op |-> "price_prediction", client |-> c, outcome |-> "login_required",
                     path |-> "none", calls |-> 0, raw |-> <<>>, predictions |-> <<>>]
       ELSE IF UsesRegression(historical_prices)
       THEN IF run.raised
            THEN last' = [op |-> "price_prediction", client |-> c, outcome |-> "rendered",
                          path |-> "regression_failed", calls |-> run.calls,
                          raw |-> outputs,
                          predictions |-> FallbackAfterError(run.predictions,
                                              historical_prices, fallback_noise)]
            ELSE last' = [op |-> "price_prediction", client |-> c, outcome |-> "rendered",
                          path |-> "regression", calls |-> run.calls, raw |-> outputs,
                          predictions |-> run.predictions]
       ELSE last' = [op |-> "price_prediction", client |-> c, outcome |-> "rendered",
                     path |-> "fallback", calls |-> 0, raw |-> <<>>,
                     predictions |-> generate_simple_predictions(historical_prices,
                                                                 fallback_noise)]
    /\ UNCHANGED <<now, users, session, disease_models, price_model, files, detections, prices, pumps, irrigation_logs,
                   settings, inflight>>

(***************************************************************************)
(* Irrigation State Manager: /smart-irrigation, /clear-all-irrigation.     *)
(* A float is [nan, value]; a nullable column holds a float or Null.       *)
(* The column logged_at (the clock at the insert) is left out: the rows of *)
(* irrigation_logs are in insertion order.                                 *)
(***************************************************************************)
\* Rows of irrigation_logs at any time.
MaxLogs == 2
\* The largest id the model gives a row of irrigation_logs.
MaxLogId == 3

Number(v) == [nan |-> FALSE, value |-> v]

NaN == [nan |-> TRUE, value |-> 0]

Null == [null |-> TRUE]

\* The form field moisture_level: absent, a text float() parses, or a text
\* on which float() raises ValueError.
NoField == [kind |-> "missing"]

Text(x) == [kind |-> "float", float |-> x]

Garbage == [kind |-> "garbage"]

\* request.form.get('moisture_level', 50)
DefaultMoisture == 50

\* What SQLite keeps of a float bound to a Float column: a NaN is stored as
\* NULL, every other float as itself.
StoredFloat(x) == IF x.nan THEN Null ELSE x

\* moisture_level < 30, moisture_level > 80
LowBelow == 30
HighAbove == 80

MoistureStatus_inclusive(moisture_level) ==
    IF ~moisture_level.nan /\ moisture_level.value <= LowBelow THEN "Low"
    ELSE IF ~moisture_level.nan /\ moisture_level.value >= HighAbove THEN "High"
    ELSE "Optimal"

\* The classification of a reading: every comparison with a NaN is false.
MoistureStatus(moisture_level) ==
    IF ~moisture_level.nan /\ moisture_level.value < LowBelow THEN "Low"
    ELSE IF ~moisture_level.nan /\ moisture_level.value > HighAbove THEN "High"
    ELSE "Optimal"

MoistureMessage(status) ==
    IF status = "Low" THEN "Water required now. Soil moisture is low."
    ELSE IF status = "High" THEN "Waterlogging detected - stop irrigation immediately!"
    ELSE "Soil moisture is optimal. No action needed."

\* PumpStatus.query.filter_by(user_id=user.id): the rows, in id order.
PumpsOf(table, user_id) == {i \in 1..Len(table) : table[i].user_id = user_id}

PumpOf(table, user_id) ==
    CHOOSE i \in PumpsOf(table, user_id) : \A j \in PumpsOf(table, user_id) : i <= j

LazyPump_always(table, user_id) ==
    Append(table, [id |-> NextId(table), user_id |-> user_id, status |-> "OFF"])

\* Get or create pump status: the table after it.
LazyPump(table, user_id) ==
    IF PumpsOf(table, user_id) = {}
    THEN Append(table, [id |-> NextId(table), user_id |-> user_id, status |-> "OFF"])
    ELSE table

SimulationLog_manual(table, user_id, moisture_level, pump) ==
    [id |-> NextId(table), user_id |-> user_id,
     soil_moisture |-> StoredFloat(moisture_level), pump_status |-> pump.status,
     action_type |-> "Manual",
     message |-> MoistureMessage(MoistureStatus(moisture_level))]

\* Log the simulation
SimulationLog(table, user_id, moisture_level, pump) ==
    [id |-> NextId(table), user_id |-> user_id,
     soil_moisture |-> StoredFloat(moisture_level), pump_status |-> pump.status,
     action_type |-> "Simulation",
     message |-> MoistureMessage(MoistureStatus(moisture_level))]

ManualLog_previous(table, user_id, action, pump) ==
    [id |-> NextId(table), user_id |-> user_id, soil_moisture |-> Null,
     pump_status |-> pump.status, action_type |-> "Manual",
     message |-> IF action = "ON" THEN "Pump turned ON." ELSE "Pump turned OFF."]

\* Log the action; pump is the row before the toggle.
ManualLog(table, user_id, action, pump) ==
    [id |-> NextId(table), user_id |-> user_id, soil_moisture |-> Null,
     pump_status |-> action, action_type |-> "Manual",
     message |-> IF action = "ON" THEN "Pump turned ON." ELSE "Pump turned OFF."]

IrrigationAnswer(c, method, action, field, outcome, status) ==
    [op |-> "smart_irrigation", client |-> c, method |-> method, action |-> action,
     field |-> field, outcome |-> outcome, status |-> status]

MayCreateLog == Len(irrigation_logs) < MaxLogs /\ NextId(irrigation_logs) <= MaxLogId

\* GET or POST /smart-irrigation
smart_irrigation(c, method, action, field) ==
    IF ~LoggedIn(c)
    THEN /\ last' = IrrigationAnswer(c, method, action, field, "login_required", "")
         /\ UNCHANGED <<now, users, session, disease_models, price_model, files,
                        detections, prices, pumps, irrigation_logs, settings, inflight>>
    ELSE
    LET user_id == session[c].user_id
        created == LazyPump(pumps, user_id)
        p == PumpOf(created, user_id)
        pump == created[p]
    IN
    /\ IF method = "POST" /\ action = "simulate"
       THEN IF field = Garbage
            THEN \* float() raises: the pump row is committed, nothing else
                 /\ pumps' = created
                 /\ UNCHANGED irrigation_logs
                 /\ last' = IrrigationAnswer(c, method, action, field, "server_error", "")
            ELSE LET moisture_level ==
                         IF field = NoField THEN Number(DefaultMoisture) ELSE field.float
                 IN  /\ MayCreateLog
                     /\ pumps' = created
                     /\ irrigation_logs' =
                            Append(irrigation_logs,
                                   SimulationLog(irrigation_logs, user_id, moisture_level, pump))
                     /\ last' = IrrigationAnswer(c, method, action, field, "rendered",
                                                 MoistureStatus(moisture_level))
       ELSE IF method = "POST" /\ action \in {"ON", "OFF"}
       THEN /\ MayCreateLog
            /\ pumps' = [created EXCEPT ![p].status = action]
            /\ irrigation_logs' =
                   Append(irrigation_logs, ManualLog(irrigation_logs, user_id, action, pump))
            /\ last' = IrrigationAnswer(c, method, action, field, "redirect", "")
       ELSE /\ pumps' = created
            /\ UNCHANGED irrigation_logs
            /\ last' = IrrigationAnswer(c, method, action, field, "rendered", "")
    /\ UNCHANGED <<now, users, session, disease_models, price_model, files, detections, prices, settings, inflight>>

RECURSIVE DeleteRows(_, _)
\* The rows of table whose index is not in gone, in order.
DeleteRows(table, gone) ==
    IF table = <<>> THEN <<>>
    ELSE LET rest == DeleteRows(SubSeq(table, 1, Len(table) - 1), gone)
         IN  IF Len(table) \in gone THEN rest ELSE Append(rest, table[Len(table)])

\* POST /clear-all-irrigation
clear_all_irrigation(c) ==
    /\ IF ~LoggedIn(c)
       THEN /\ UNCHANGED irrigation_logs
            /\ last' = [op |-> "clear_all_irrigation", client |-> c,
                        outcome |-> "login_required"]
       ELSE /\ irrigation_logs' =
                   DeleteRows(irrigation_logs,
                              {i \in 1..Len(irrigation_logs) :
                                  irrigation_logs[i].user_id = session[c].user_id})
            /\ last' = [op |-> "clear_all_irrigation", client |-> c, outcome |-> "cleared"]
    /\ UNCHANGED <<now, users, session, disease_models, price_model, files, detections,
                   prices, pumps, settings, inflight>>

(***************************************************************************)
(* Deleting detections: /delete-detection/<id>, /clear-all-detections.     *)
(* The upload folder is resolved against the application root both when a  *)
(* file is written and when it is removed.                                 *)
(***************************************************************************)
\* DiseaseDetection.query.get(detection_id): the index of the row, 0 for none.
DetectionById(detection_id) ==
    IF \E i \in 1..Len(detections) : detections[i].id = detection_id
    THEN CHOOSE i \in 1..Len(detections) : detections[i].id = detection_id
    ELSE 0

\* DiseaseDetection.query.filter_by(user_id=user.id)
DetectionsOf(user_id) == {i \in 1..Len(detections) : detections[i].user_id = user_id}

RemoveImages_keep(stored, paths) == stored

\* os.remove of each of the paths that exists.  A removal that the file
\* system refuses (the handlers print it and go on) is outside the model.
RemoveImages(stored, paths) == stored \ paths

\* POST /delete-detection/<detection_id>
delete_detection(c, detection_id) ==
    LET d == DetectionById(detection_id)
        Refused(outcome) ==
            /\ last' = [op |-> "delete_detection", client |-> c,
                        detection_id |-> detection_id, outcome |-> outcome, removed |-> {}]
            /\ UNCHANGED <<files, detections>>
    IN
    /\ IF ~LoggedIn(c) THEN Refused("login_required")
       ELSE IF d = 0 THEN Refused("not_found")
       ELSE IF detections[d].user_id # session[c].user_id THEN Refused("access_denied")
       ELSE /\ files' = RemoveImages(files, {detections[d].image_path})
            /\ detections' = DeleteRows(detections, {d})
            /\ last' = [op |-> "delete_detection", client |-> c,
                        detection_id |-> detection_id, outcome |-> "deleted",
                        removed |-> {detections[d].image_path}]
    /\ UNCHANGED <<now, users, session, disease_models, price_model, prices, pumps,
                   irrigation_logs, settings, inflight>>

\* POST /clear-all-detections
clear_all_detections(c) ==
    /\ IF ~LoggedIn(c)
       THEN /\ UNCHANGED <<files, detections>>
            /\ last' = [op |-> "clear_all_detections", client |-> c,
                        outcome |-> "login_required", removed |-> {}]
       ELSE LET mine == DetectionsOf(session[c].user_id)
                paths == {detections[i].image_path : i \in mine}
            IN  /\ files' = RemoveImages(files, paths)
                /\ detections' = DeleteRows(detections, mine)
                /\ last' = [op |-> "clear_all_detections", client |-> c,
                            outcome |-> "cleared", removed |-> paths]
    /\ UNCHANGED <<now, users, session, disease_models, price_model, prices, pumps,
                   irrigation_logs, settings, inflight>>

MayView_anyone(user, detection) == TRUE

\* The negation of: detection.user_id != user.id and user.user_type != 'Developer'
MayView(user, detection) == detection.user_id = user.id \/ user.user_type = "Developer"

\* What the two pages of one detection answer: the page for its owner or a
\* Developer, 404 for no such row.
ViewOutcome(c, detection_id, page) ==
    IF ~LoggedIn(c) THEN "login_required"
    ELSE IF DetectionById(detection_id) = 0 THEN "not_found"
    ELSE IF ~MayView(UserById(session[c].user_id), detections[DetectionById(detection_id)])
    THEN "access_denied"
    ELSE page

\* GET /detection-result/<detection_id>
detection_result(c, detection_id) ==
    /\ last' = [op |-> "detection_result", client |-> c, detection_id |-> detection_id,
                outcome |-> ViewOutcome(c, detection_id, "detection_result_page")]
    /\ UNCHANGED <<now, users, session, disease_models, price_model, files, detections,
                   prices, pumps, irrigation_logs, settings, inflight>>

\* GET /download-detection-pdf/<detection_id>
download_detection_pdf(c, detection_id) ==
    /\ last' = [op |-> "download_detection_pdf", client |-> c,
                detection_id |-> detection_id,
                outcome |-> ViewOutcome(c, detection_id, "pdf_file")]
    /\ UNCHANGED <<now, users, session, disease_models, price_model, files, detections,
                   prices, pumps, irrigation_logs, settings, inflight>>

(***************************************************************************)
(* System settings: the seeded table, update and reset (admin only).       *)
(***************************************************************************)
Setting(id, key, value, type, seeded_at) ==
    [id |-> id, setting_key |-> key, setting_value |-> value, setting_type |-> type,
     updated_by |-> "", updated_at |-> [clock |-> "ist", at |-> seeded_at]]

\* reset_setting's dictionary of defaults.
defaults ==
    [site_name |-> "Adike Mitra",
     site_tagline |-> "Smart Arecanut Farm Management",
     max_upload_size |-> "16",
     detection_confidence_threshold |-> "0.75",
     enable_notifications |-> "true",
     irrigation_auto_mode |-> "true",
     soil_moisture_threshold |-> "30",
     maintenance_mode |-> "false",
     user_registration |-> "true",
     session_timeout |-> "60",
     ai_model_version |-> "v3.0",
     backup_frequency |-> "daily"]

\* The rows the startup writes into an empty system_settings.
default_settings ==
    <<Setting(1, "site_name", "Adike Mitra", "text", 0),
      Setting(2, "site_tagline", "Smart Arecanut Farm Management", "text", 0),
      Setting(3, "max_upload_size", "16", "number", 0),
      Setting(4, "detection_confidence_threshold", "0.75", "number", 0),
      Setting(5, "enable_notifications", "true", "boolean", 0),
      Setting(6, "irrigation_auto_mode", "true", "boolean", 0),
      Setting(7, "soil_moisture_threshold", "30", "number", 0),
      Setting(8, "maintenance_mode", "false", "boolean", 0),
      Setting(9, "user_registration", "true", "boolean", 0),
      Setting(10, "session_timeout", "60", "number", 0),
      Setting(11, "ai_model_version", "v3.0", "text", 0),
      Setting(12, "backup_frequency", "daily", "text", 0)>>

\* The keys login puts into the session; logout clears them.
SessionKeys(c) == IF LoggedIn(c) THEN {"user_id", "user_name", "user_type"} ELSE {}

\* session[key], for a key the session holds.
SessionValue(c, key) ==
    CASE key = "user_id" -> session[c].user_id
      [] key = "user_name" -> session[c].user_name
      [] key = "user_type" -> session[c].user_type

\* SystemSettings.query.filter_by(setting_key=...).first(): the index, or 0.
SettingByKey(table, key) ==
    IF \E i \in 1..Len(table) : table[i].setting_key = key
    THEN CHOOSE i \in 1..Len(table) : table[i].setting_key = key
    ELSE 0

\* The user row update and reset look up by session['user_phone']: the
\* lookup raises KeyError when the session has no such key, and yields None
\* (found FALSE) when no user has that phone.
UserOfSessionPhone(c) ==
    IF "user_phone" \notin SessionKeys(c)
    THEN [raised |-> TRUE, found |-> FALSE, name |-> ""]
    ELSE LET by_phone == {i \in 1..Len(users) :
                             users[i].phone = SessionValue(c, "user_phone")}
         IN  IF by_phone = {}
             THEN [raised |-> FALSE, found |-> FALSE, name |-> ""]
             ELSE [raised |-> FALSE, found |-> TRUE, name |-> users[First(by_phone)].name]

\* A submitted form field: its name with the prefix setting_ taken off
\* (is_setting tells whether it had the prefix), and its value.
Field(is_setting, key, value) == [is_setting |-> is_setting, key |-> key, value |-> value]

\* What update stores for a submitted value.
StoredValue(type, value) ==
    IF type = "boolean" THEN (IF value = "on" THEN "true" ELSE "false") ELSE value

\* The loop over the form's fields from field i on: the table as the open
\* transaction sees it, the number of updated rows, and whether user.name
\* raised (user is None) after a value was assigned.
RECURSIVE UpdateLoop(_, _, _, _, _)
UpdateLoop(table, form, i, user, count) ==
    IF i > Len(form)
    THEN [raised |-> FALSE, table |-> table, count |-> count]
    ELSE LET f == form[i]
             k == SettingByKey(table, f.key)
         IN  IF ~f.is_setting \/ k = 0
             THEN UpdateLoop(table, form, i + 1, user, count)
             ELSE LET valued == [table EXCEPT ![k].setting_value =
                                    StoredValue(table[k].setting_type, f.value)]
                  IN  IF ~user.found
                      THEN [raised |-> TRUE, table |-> valued, count |-> count]
                      ELSE UpdateLoop([valued EXCEPT
                                          ![k].updated_by = user.name,
                                          ![k].updated_at = [clock |-> "utc", at |-> now]],
                                      form, i + 1, user, count + 1)

Rollback_keep(stored, pending) == pending

\* db.session.rollback(): the table as it was stored, whatever the open
\* transaction had assigned.
Rollback(stored, pending) == stored

SettingsAnswer(c, op, input, outcome, count) ==
    [op |-> op, client |-> c, input |-> input, outcome |-> outcome, count |-> count]

\* POST /admin/settings/update
update_system_settings(c, form) ==
    /\ IF ~LoggedIn(c)
       THEN /\ UNCHANGED settings
            /\ last' = SettingsAnswer(c, "update_system_settings", form, "login_required", 0)
       ELSE IF ~IsAdmin(c)
       THEN /\ UNCHANGED settings
            /\ last' = SettingsAnswer(c, "update_system_settings", form, "access_denied", 0)
       ELSE LET user == UserOfSessionPhone(c)
                run == IF user.raised
                       THEN [raised |-> TRUE, table |-> settings, count |-> 0]
                       ELSE UpdateLoop(settings, form, 1, user, 0)
            IN  IF run.raised
                THEN /\ settings' = Rollback(settings, run.table)
                     /\ last' = SettingsAnswer(c, "update_system_settings", form,
                                               "error_updating", 0)
                ELSE /\ settings' = run.table
                     /\ last' = SettingsAnswer(c, "update_system_settings", form,
                                               "successfully_updated", run.count)
    /\ UNCHANGED <<now, users, session, disease_models, price_model, files, detections,
                   prices, pumps, irrigation_logs, inflight>>

\* POST /admin/settings/reset/<setting_key>
reset_setting(c, setting_key) ==
    /\ IF ~LoggedIn(c)
       THEN /\ UNCHANGED settings
            /\ last' = SettingsAnswer(c, "reset_setting", setting_key, "login_required", 0)
       ELSE IF ~IsAdmin(c)
       THEN /\ UNCHANGED settings
            /\ last' = SettingsAnswer(c, "reset_setting", setting_key, "access_denied", 0)
       ELSE LET k == SettingByKey(settings, setting_key) IN
            IF k = 0
            THEN /\ UNCHANGED settings
                 /\ last' = SettingsAnswer(c, "reset_setting", setting_key, "not_found", 0)
            ELSE IF setting_key \notin DOMAIN defaults
            THEN /\ UNCHANGED settings
                 /\ last' = SettingsAnswer(c, "reset_setting", setting_key, "no_default", 0)
            ELSE LET assigned == [settings EXCEPT
                                     ![k].setting_value = defaults[setting_key],
                                     ![k].updated_at = [clock |-> "utc", at |-> now]]
                     user == UserOfSessionPhone(c)
                 IN  IF user.raised \/ ~user.found
                     THEN /\ settings' = Rollback(settings, assigned)
                          /\ last' = SettingsAnswer(c, "reset_setting", setting_key,
                                                    "error_resetting", 0)
                     ELSE /\ settings' = [assigned EXCEPT ![k].updated_by = user.name]
                          /\ last' = SettingsAnswer(c, "reset_setting", setting_key,
                                                    "reset_to_default", 1)
    /\ UNCHANGED <<now, users, session, disease_models, price_model, files, detections,
                   prices, pumps, irrigation_logs, inflight>>

\* A request between its read and its write; Idle when the client has none.
Idle == [op |-> "idle"]

(***************************************************************************)
(* Requests served at the same time.  Each request runs in a thread of its *)
(* own with a database session of its own; a handler that reads a table    *)
(* and then writes by what it read is two steps, and steps of other        *)
(* requests come between them.                                             *)
(***************************************************************************)
CreatesPrice_recheck(read, table) == ExistingPrice(table) = 0

\* if existing_price: ... else: create, by the row the query gave.
CreatesPrice(read, table) == read = 0

\* update_market_prices from "if existing_price" on: the table after it.
WritePrice(table, scraped_data, existing_price) ==
    IF ~CreatesPrice(existing_price, table)
    THEN [table EXCEPT ![existing_price] =
            [@ EXCEPT !.red_arecanut_price = scraped_data.red_arecanut_price,
                      !.white_arecanut_price = scraped_data.white_arecanut_price,
                      !.date = now]]
    ELSE Append(table,
            [id |-> NextId(table),
             source |-> "CAMPCO Mangalore",
             red_arecanut_price |-> scraped_data.red_arecanut_price,
             white_arecanut_price |-> scraped_data.white_arecanut_price,
             grade |-> "Grade A",
             date |-> now])

\* POST /update-prices up to the query for today's row.
update_prices_read(c, fetch_ok) ==
    /\ inflight[c] = Idle
    /\ IF ~LoggedIn(c)
       THEN /\ UNCHANGED inflight
            /\ last' = [op |-> "update_prices_route", client |-> c,
                        outcome |-> "login_required"]
       ELSE /\ inflight' = [inflight EXCEPT ![c] =
                              [op |-> "update_market_prices",
                               scraped_data |-> ScrapedData(Scrape(fetch_ok)),
                               existing_price |-> ExistingPrice(prices)]]
            /\ last' = [op |-> "update_prices_route", client |-> c, outcome |-> "queried"]
    /\ UNCHANGED <<now, users, session, disease_models, price_model, files, detections,
                   prices, pumps, irrigation_logs, settings>>

\* POST /update-prices from the query on: update the row it found, or create.
update_prices_write(c) ==
    /\ inflight[c].op = "update_market_prices"
    /\ CreatesPrice(inflight[c].existing_price, prices) => MayCreatePrice
    /\ prices' = WritePrice(prices, inflight[c].scraped_data, inflight[c].existing_price)
    /\ inflight' = [inflight EXCEPT ![c] = Idle]
    /\ last' = [op |-> "update_prices_route", client |-> c, outcome |-> "json"]
    /\ UNCHANGED <<now, users, session, disease_models, price_model, files, detections,
                   pumps, irrigation_logs, settings>>

CreatesPump_recheck(read, table, user_id) == PumpsOf(table, user_id) = {}

\* if not pump_status: create, by the row the query gave.
CreatesPump(read, table, user_id) == read = 0

\* GET /smart-irrigation up to the query for the user's pump row.
smart_irrigation_read(c) ==
    /\ inflight[c] = Idle
    /\ IF ~LoggedIn(c)
       THEN /\ UNCHANGED inflight
            /\ last' = IrrigationAnswer(c, "GET", "", NoField, "login_required", "")
       ELSE /\ inflight' = [inflight EXCEPT ![c] =
                              [op |-> "smart_irrigation",
                               pump_status |->
                                  IF PumpsOf(pumps, session[c].user_id) = {} THEN 0
                                  ELSE PumpOf(pumps, session[c].user_id)]]
            /\ last' = IrrigationAnswer(c, "GET", "", NoField, "queried", "")
    /\ UNCHANGED <<now, users, session, disease_models, price_model, files, detections,
                   prices, pumps, irrigation_logs, settings>>

\* GET /smart-irrigation from the query on: create the row if none was found,
\* and render.  The table pump_status has no unique constraint on user_id.
smart_irrigation_write(c) ==
    /\ inflight[c].op = "smart_irrigation"
    /\ pumps' = IF CreatesPump(inflight[c].pump_status, pumps, session[c].user_id)
                THEN Append(pumps, [id |-> NextId(pumps), user_id |-> session[c].user_id,
                                    status |-> "OFF"])
                ELSE pumps
    /\ inflight' = [inflight EXCEPT ![c] = Idle]
    /\ last' = IrrigationAnswer(c, "GET", "", NoField, "rendered", "")
    /\ UNCHANGED <<now, users, session, disease_models, price_model, files, detections,
                   prices, irrigation_logs, settings>>

(***************************************************************************)
(* The pages that only read: the route guards and a rendering.             *)
(***************************************************************************)
\* admin_dashboard, admin_users, admin_detections, system_settings,
\* export_system_data: behind admin_required.
AdminPages ==
    {"admin_dashboard", "admin_users", "admin_detections", "system_settings",
     "export_system_data"}

\* user_dashboard, disease_history, weather_advisory: behind login_required.
UserPages == {"user_dashboard", "disease_history", "weather_advisory"}

\* login_required: the redirect to the login page, or the route's body.
LoginGuard(c) == IF ~LoggedIn(c) THEN "login_required" ELSE "pass"

\* admin_required: the redirect to the login page or to the dashboard, or the
\* route's body.
AdminGuard(c) ==
    IF ~LoggedIn(c) THEN "login_required"
    ELSE IF ~IsAdmin(c) THEN "access_denied"
    ELSE "pass"

\* GET of a page behind admin_required
admin_page(c, page) ==
    /\ last' = [op |-> page, client |-> c,
                outcome |-> IF AdminGuard(c) = "pass" THEN "rendered" ELSE AdminGuard(c)]
    /\ UNCHANGED <<now, users, session, disease_models, price_model, files, detections,
                   prices, pumps, irrigation_logs, settings, inflight>>

\* GET of a page behind login_required
user_page(c, page) ==
    /\ last' = [op |-> page, client |-> c,
                outcome |-> IF LoginGuard(c) = "pass" THEN "rendered" ELSE LoginGuard(c)]
    /\ UNCHANGED <<now, users, session, disease_models, price_model, files, detections,
                   prices, pumps, irrigation_logs, settings, inflight>>

(***************************************************************************)
(* Startup and the specifications.                                         *)
(***************************************************************************)
\* load_model of yellow_leaf then fruit_rot in one try block: the second is
\* loaded only if the first was.
LoadableModels == {{}, {"yellow_leaf"}, {"yellow_leaf", "fruit_rot"}}

Startup == [op |-> "startup", client |-> "", outcome |-> ""]

\* Two registered accounts, as register leaves them.
RegisteredUsers ==
    <<[id |-> 1, phone |-> PhoneEnding("1"), email |-> NoEmail, name |-> "Farmer One",
       location |-> "", farm_size |-> "",
       user_type |-> "Farmer", password_hash |-> generate_password_hash("secret1")],
      [id |-> 2, phone |-> PhoneEnding("2"), email |-> NoEmail, name |-> "Developer One",
       location |-> "", farm_size |-> "",
       user_type |-> "Developer", password_hash |-> generate_password_hash("secret2")]>>

SessionOf(user) ==
    [user_id |-> user.id, user_name |-> user.name, user_type |-> user.user_type]

ConstantVariation == [i \in 1..SeedDays |-> 1000]

VaryingVariation == [i \in 1..SeedDays |-> 950 + ((i * 37) % 101)]

\* The state after construction on a fresh database.
Init ==
    /\ now \in 0..(TicksPerDay - 1)
    /\ users = <<>>
    /\ session = [c \in Clients |-> AnonymousSession]
    /\ disease_models \in LoadableModels
    /\ price_model \in BOOLEAN
    /\ files = {}
    /\ detections = <<>>
    /\ pumps = <<>>
    /\ irrigation_logs = <<>>
    /\ \E fetch_ok \in BOOLEAN, variation \in SeedVariations :
          prices = SeededPrices(now, ScrapedData(Scrape(fetch_ok)), variation)
    /\ settings = default_settings
    /\ inflight = [c \in Clients |-> Idle]
    /\ last = Startup

\* ---- Detection workflow ----
Request(has_image, filename, detection_type, image, rain_chance) ==
    [has_image |-> has_image, filename |-> filename, detection_type |-> detection_type,
     image |-> image, rain_chance |-> rain_chance]

UploadNames ==
    {<<"">>, <<"leaf">>, <<"png">>, <<"leaf", "exe">>, <<"leaf", "png", "exe">>,
     <<"leaf", "png">>, <<"my leaf", "JPG">>, <<"leaf", "exe", "jpeg">>, <<"", "gif">>}

SampleImages ==
    {[readable |-> FALSE, out |-> [k \in ClassifierKeys |-> Raise]],
     [readable |-> TRUE, out |-> [k \in ClassifierKeys |-> 90000]],
     [readable |-> TRUE, out |-> [k \in ClassifierKeys |-> Raise]]}

\* The images on which a request of type dt can differ: what a classifier
\* the type does not ask for would return is fixed.
ImagesFor(dt) ==
    {img \in Images :
        \A k \in ClassifierKeys : dt \notin {k, "both"} => img.out[k] = Raise}

\* Every classification of one well-named upload.
ClassificationRequests ==
    {Request(TRUE, <<"leaf", "png">>, r[1], r[2], 60) :
        r \in {r \in DetectionTypes \X Images : r[2] \in ImagesFor(r[1])}}

\* Every file name with a few images, and a form without the image part.
NamingRequests ==
    {Request(TRUE, fn, "both", img, rain) :
        fn \in UploadNames, img \in SampleImages, rain \in RainChances}
    \cup {Request(FALSE, <<"">>, "both", img, 60) : img \in SampleImages}

\* One account logged in on c1, nobody on c2.
InitDetect ==
    /\ now = 0
    /\ users = RegisteredUsers
    /\ session = [c \in Clients |-> IF c = "c1" THEN SessionOf(users[1]) ELSE AnonymousSession]
    /\ disease_models \in LoadableModels
    /\ price_model = TRUE
    /\ files = {}
    /\ detections = <<>>
    /\ pumps = <<>>
    /\ irrigation_logs = <<>>
    /\ prices = SeededPrices(now, scrape_mangalore_prices, ConstantVariation)
    /\ settings = default_settings
    /\ inflight = [c \in Clients |-> Idle]
    /\ last = Startup

Classify == \E req \in ClassificationRequests : disease_detection("c1", req)

Upload == \E c \in Clients, req \in NamingRequests : disease_detection(c, req)

NextDetect == Classify \/ Upload

SpecDetect == InitDetect /\ [][NextDetect]_vars

\* ---- Market price maintenance ----
AdminPrices == {[source |-> "Local Mandi", red |-> 14000, white |-> 15200, grade |-> "Grade B"]}

\* A farmer logged in on c1, a developer on c2.
InitPrice ==
    /\ now \in 0..(TicksPerDay - 1)
    /\ users = RegisteredUsers
    /\ session = [c \in Clients |-> IF c = "c1" THEN SessionOf(users[1]) ELSE SessionOf(users[2])]
    /\ disease_models = {}
    /\ price_model = FALSE
    /\ files = {}
    /\ detections = <<>>
    /\ pumps = <<>>
    /\ irrigation_logs = <<>>
    /\ \E fetch_ok \in BOOLEAN :
          prices = SeededPrices(now, ScrapedData(Scrape(fetch_ok)), ConstantVariation)
    /\ settings = default_settings
    /\ inflight = [c \in Clients |-> Idle]
    /\ last = Startup

ViewPrices == \E fetch_ok \in BOOLEAN : market_prices("c1", fetch_ok)

RefreshPrices == \E fetch_ok \in BOOLEAN : update_prices_route("c1", fetch_ok)

AdminInsertPrice ==
    \E c \in Clients, p \in AdminPrices : update_prices(c, p.source, p.red, p.white, p.grade)

Logout == \E c \in Clients : logout(c)

Login ==
    \E c \in Clients, phone \in {PhoneEnding("1"), PhoneEnding("2"), PhoneEnding("3")},
       password \in {"secret1", "secret2", "wrong1"} : login(c, phone, password)

NextPrice == ViewPrices \/ RefreshPrices \/ AdminInsertPrice \/ Tick

SpecPrice == InitPrice /\ [][NextPrice]_vars

\* ---- Price forecaster ----
\* Whole days since the database was seeded, at the start: the window then
\* holds 30, 14, 13, 1 and 0 of the seeded rows.
SeedAges == {0, HistoryDays - MinHistory, HistoryDays - MinHistory + 1,
             HistoryDays - 1, HistoryDays}

\* A farmer logged in on c1, nobody on c2, on a database seeded some days ago
\* that nobody has refreshed since.
InitForecast ==
    /\ now = 0
    /\ users = RegisteredUsers
    /\ session = [c \in Clients |-> IF c = "c1" THEN SessionOf(users[1]) ELSE AnonymousSession]
    /\ disease_models = {}
    /\ price_model \in BOOLEAN
    /\ files = {}
    /\ detections = <<>>
    /\ pumps = <<>>
    /\ irrigation_logs = <<>>
    /\ \E age \in SeedAges :
          prices = SeededPrices(now - age * TicksPerDay, scrape_mangalore_prices,
                                VaryingVariation)
    /\ settings = default_settings
    /\ inflight = [c \in Clients |-> Idle]
    /\ last = Startup

Forecast ==
    \E outputs \in RegressionOutputs, clamp_noise \in ClampNoises,
       fallback_noise \in FallbackNoises :
        price_prediction("c1", outputs, clamp_noise, fallback_noise)

ForecastAnonymous ==
    \E outputs \in RegressionOutputs, clamp_noise \in ClampNoises,
       fallback_noise \in FallbackNoises :
        /\ outputs[1].raised
        /\ clamp_noise[1] = fallback_noise.red[1] + 2
        /\ price_prediction("c2", outputs, clamp_noise, fallback_noise)

\* A visit of /market-prices while the adapter answers.
ViewFetched == market_prices("c1", TRUE)

NextForecast == Forecast \/ ForecastAnonymous \/ ViewFetched \/ Tick

SpecForecast == InitForecast /\ [][NextForecast]_vars

\* ---- Irrigation ----
\* The readings at both sides of the two cutoffs, a NaN, no field and a text
\* that is no float.
MoistureFields ==
    {NoField, Garbage, Text(NaN)}
    \cup {Text(Number(v)) : v \in {25, LowBelow, HighAbove, 85}}

\* A farmer logged in on c1, a developer on c2; nobody has visited the
\* irrigation page yet.
InitIrrigation ==
    /\ now = 0
    /\ users = RegisteredUsers
    /\ session = [c \in Clients |-> IF c = "c1" THEN SessionOf(users[1]) ELSE SessionOf(users[2])]
    /\ disease_models = {}
    /\ price_model = FALSE
    /\ files = {}
    /\ detections = <<>>
    /\ pumps = <<>>
    /\ irrigation_logs = <<>>
    /\ prices = SeededPrices(now, scrape_mangalore_prices, ConstantVariation)
    /\ settings = default_settings
    /\ inflight = [c \in Clients |-> Idle]
    /\ last = Startup

VisitIrrigation == \E c \in Clients : smart_irrigation(c, "GET", "", NoField)

Simulate ==
    \/ \E field \in MoistureFields : smart_irrigation("c1", "POST", "simulate", field)
    \/ smart_irrigation("c2", "POST", "simulate", Text(Number(85)))

ManualPump == \E c \in Clients, action \in {"ON", "OFF"} : smart_irrigation(c, "POST", action, NoField)

OtherIrrigationPost == smart_irrigation("c1", "POST", "AUTO", NoField)

ClearIrrigation == \E c \in Clients : clear_all_irrigation(c)

NextIrrigation ==
    VisitIrrigation \/ Simulate \/ ManualPump \/ OtherIrrigationPost \/ ClearIrrigation

SpecIrrigation == InitIrrigation /\ [][NextIrrigation]_vars

\* ---- Deleting detections ----
\* Detections to delete.
StoredRows == 3

\* The row an upload of name by user_id at time 0 left, on which no
\* classifier ran.
StoredDetection(id, user_id, name) ==
    [id |-> id,
     user_id |-> user_id,
     image_path |-> UploadPath(user_id, 0, secure_filename(<<name, "png">>)),
     disease_name |-> "Healthy",
     severity |-> get_disease_recommendation("Healthy", 7500).severity,
     confidence |-> 7500,
     recommendation |-> get_disease_recommendation("Healthy", 7500).treatment,
     weather_warning |-> WeatherWarning(60)]

\* The tables StoredRows uploads of the two users within one second leave:
\* the first two have the same file name, and so the same file when they
\* are of one user.
StoredTables ==
    {[k \in 1..StoredRows |->
         StoredDetection(k, owner[k], IF k <= 2 THEN "leaf" ELSE "fruit")] :
     owner \in [1..StoredRows -> {1, 2}]}

\* A farmer logged in on c1, a developer on c2, after some uploads.
InitDelete ==
    /\ now = 0
    /\ users = RegisteredUsers
    /\ session = [c \in Clients |-> IF c = "c1" THEN SessionOf(users[1]) ELSE SessionOf(users[2])]
    /\ disease_models = {}
    /\ price_model = FALSE
    /\ detections \in StoredTables
    /\ files = {detections[i].image_path : i \in 1..Len(detections)}
    /\ pumps = <<>>
    /\ irrigation_logs = <<>>
    /\ prices = SeededPrices(now, scrape_mangalore_prices, ConstantVariation)
    /\ settings = default_settings
    /\ inflight = [c \in Clients |-> Idle]
    /\ last = Startup

DeleteOne == \E c \in Clients, detection_id \in 1..StoredRows : delete_detection(c, detection_id)

ClearAll == \E c \in Clients : clear_all_detections(c)

ViewOne == \E c \in Clients, detection_id \in 1..StoredRows : detection_result(c, detection_id)

DownloadOne ==
    \E c \in Clients, detection_id \in 1..StoredRows : download_detection_pdf(c, detection_id)

NextDelete == DeleteOne \/ ClearAll \/ ViewOne \/ DownloadOne

SpecDelete == InitDelete /\ [][NextDelete]_vars

\* ---- Sessions ----
\* Two registered accounts, nobody logged in.
InitSession ==
    /\ now = 0
    /\ users = RegisteredUsers
    /\ session = [c \in Clients |-> AnonymousSession]
    /\ disease_models = {}
    /\ price_model = FALSE
    /\ files = {}
    /\ detections = <<>>
    /\ pumps = <<>>
    /\ irrigation_logs = <<>>
    /\ prices = SeededPrices(now, scrape_mangalore_prices, ConstantVariation)
    /\ settings = default_settings
    /\ inflight = [c \in Clients |-> Idle]
    /\ last = Startup

NextSession == Login \/ Logout

SpecSession == InitSession /\ [][NextSession]_vars

\* ---- Accounts ----
RegistrationForm(phone, email, name, user_type, password, confirm_password) ==
    [phone |-> phone, email |-> email, name |-> name, location |-> "Puttur",
     farm_size |-> "2.5", user_type |-> user_type, password |-> password,
     confirm_password |-> confirm_password]

\* Ten characters, one of them no digit; nine digits; eleven digits.
MalformedPhones ==
    {[PhoneEnding("1") EXCEPT ![2] = "a"],
     SubSeq(PhoneEnding("1"), 1, PhoneLength - 1),
     PhoneEnding("1") \o <<"1">>}

RegistrationForms ==
    {RegistrationForm(PhoneEnding("1"), "a@x", "Asha", "Farmer", "secret1", "secret1"),
     RegistrationForm(PhoneEnding("2"), "", "Dev", "Developer", "secret1", "secret1"),
     RegistrationForm(PhoneEnding("2"), "a@x", "Ravi", "Farmer", "secret1", "secret1"),
     RegistrationForm(PhoneEnding("1"), "b@x", "Ravi", "Farmer", "secret1", "secret1"),
     RegistrationForm(PhoneEnding("2"), "b@x", "Ravi", "Admin", "secret1", "secret1"),
     RegistrationForm(PhoneEnding("2"), "", "Ravi", "Farmer", "secret1", "secret2"),
     RegistrationForm(PhoneEnding("2"), "", "", "Farmer", "secret1", "secret1"),
     RegistrationForm(<<>>, "", "Ravi", "Farmer", "secret1", "secret1")}
    \cup {RegistrationForm(phone, "", "Ravi", "Farmer", "secret1", "secret1") :
             phone \in MalformedPhones}

ProfileForm(action, name, email, current_password, new_password, confirm_password) ==
    [action |-> action, name |-> name, email |-> email, location |-> "Sullia",
     farm_size |-> "3", current_password |-> current_password,
     new_password |-> new_password, confirm_password |-> confirm_password]

ProfileForms ==
    {ProfileForm("update_profile", name, email, "", "", "") :
        name \in {"", "Asha K"}, email \in {"", "a@x", "b@x"}}
    \cup {ProfileForm("change_password", "", "", "secret1", "secret2", "secret2"),
          ProfileForm("change_password", "", "", "wrong1", "secret2", "secret2"),
          ProfileForm("change_password", "", "", "secret1", "secret2", "short"),
          ProfileForm("change_password", "", "", "secret1", "short", "short")}
    \cup {ProfileForm("", "", "", "", "", "")}

InitAccounts ==
    /\ now = 0
    /\ users = <<>>
    /\ session = [c \in Clients |-> AnonymousSession]
    /\ disease_models = {}
    /\ price_model = FALSE
    /\ files = {}
    /\ detections = <<>>
    /\ pumps = <<>>
    /\ irrigation_logs = <<>>
    /\ prices = SeededPrices(now, scrape_mangalore_prices, ConstantVariation)
    /\ settings = default_settings
    /\ inflight = [c \in Clients |-> Idle]
    /\ last = Startup

Register == \E form \in RegistrationForms : register("c2", form)

SignIn == \E phone \in {PhoneEnding("1"), PhoneEnding("2")} : login("c1", phone, "secret1")

EditProfile == \E form \in ProfileForms : profile("c1", form)

EditProfileAnonymous == profile("c2", ProfileForm("update_profile", "Asha K", "b@x", "", "", ""))

NextAccounts == Register \/ SignIn \/ EditProfile \/ EditProfileAnonymous

SpecAccounts == InitAccounts /\ [][NextAccounts]_vars

\* ---- System settings ----
\* The startup seeds system_settings only when the table is empty, so the
\* table the program starts on is the seeded one or one an earlier run left
\* in the database file: here the values of two keys may differ from the
\* seeded ones.
StoredSettings ==
    {[default_settings EXCEPT ![1].setting_value = site_name,
                              ![8].setting_value = maintenance_mode] :
        site_name \in {"Adike Mitra", "Areca Farm"},
        maintenance_mode \in {"false", "true"}}

SettingsForms ==
    {<<Field(TRUE, "site_name", "Hosa Adike")>>,
     <<Field(TRUE, "maintenance_mode", "on")>>,
     <<Field(FALSE, "csrf_token", "t"), Field(TRUE, "maintenance_mode", "off"),
       Field(TRUE, "site_name", "Adike Mitra")>>,
     <<Field(TRUE, "unknown_key", "1")>>,
     <<>>}

ResetKeys == {"site_name", "maintenance_mode", "unknown_key"}

InitSettings ==
    /\ now = 0
    /\ users = RegisteredUsers
    /\ session = [c \in Clients |-> AnonymousSession]
    /\ disease_models = {}
    /\ price_model = FALSE
    /\ files = {}
    /\ detections = <<>>
    /\ pumps = <<>>
    /\ irrigation_logs = <<>>
    /\ prices = SeededPrices(now, scrape_mangalore_prices, ConstantVariation)
    /\ settings \in StoredSettings
    /\ inflight = [c \in Clients |-> Idle]
    /\ last = Startup

UpdateSettings == \E c \in Clients, form \in SettingsForms : update_system_settings(c, form)

ResetSetting == \E c \in Clients, key \in ResetKeys : reset_setting(c, key)

SignInAny ==
    \E c \in Clients, user \in {1, 2} :
        login(c, RegisteredUsers[user].phone, RegisteredUsers[user].password_hash.hash_of)

NextSettings == UpdateSettings \/ ResetSetting \/ SignInAny \/ Logout \/ Tick

SpecSettings == InitSettings /\ [][NextSettings]_vars

\* ---- Requests served at the same time ----
\* One farmer logged in from two browsers.
InitRace ==
    /\ now = 0
    /\ users = RegisteredUsers
    /\ session = [c \in Clients |-> SessionOf(users[1])]
    /\ disease_models = {}
    /\ price_model = FALSE
    /\ files = {}
    /\ detections = <<>>
    /\ pumps = <<>>
    /\ irrigation_logs = <<>>
    /\ prices = SeededPrices(now, scrape_mangalore_prices, ConstantVariation)
    /\ settings = default_settings
    /\ inflight = [c \in Clients |-> Idle]
    /\ last = Startup

RefreshRead == \E c \in Clients, fetch_ok \in BOOLEAN : update_prices_read(c, fetch_ok)

RefreshWrite == \E c \in Clients : update_prices_write(c)

IrrigationRead == \E c \in Clients : smart_irrigation_read(c)

IrrigationWrite == \E c \in Clients : smart_irrigation_write(c)

NextRace == RefreshRead \/ RefreshWrite \/ IrrigationRead \/ IrrigationWrite \/ Tick

SpecRace == InitRace /\ [][NextRace]_vars

\* ---- Access control ----
\* Two registered accounts, nobody logged in, the farmer's pump switched on
\* once; c1 logs in as either, logs out and asks for every route.
InitAccess ==
    /\ now = 0
    /\ users = RegisteredUsers
    /\ session = [c \in Clients |-> AnonymousSession]
    /\ disease_models = {"yellow_leaf", "fruit_rot"}
    /\ price_model = FALSE
    /\ files = {}
    /\ detections = <<>>
    /\ pumps = <<[id |-> 1, user_id |-> 1, status |-> "ON"]>>
    /\ irrigation_logs = <<ManualLog(<<>>, 1, "ON", [status |-> "OFF"])>>
    /\ prices = SeededPrices(now, scrape_mangalore_prices, ConstantVariation)
    /\ settings = default_settings
    /\ inflight = [c \in Clients |-> Idle]
    /\ last = Startup

SignInFirst ==
    \E user \in {1, 2} :
        login("c1", RegisteredUsers[user].phone, RegisteredUsers[user].password_hash.hash_of)

AskUpload ==
    disease_detection("c1",
        Request(TRUE, <<"leaf", "png">>, "both",
                [readable |-> TRUE, out |-> [k \in ClassifierKeys |-> 90000]], 60))

AskDetection ==
    \/ delete_detection("c1", 1)
    \/ clear_all_detections("c1")
    \/ detection_result("c1", 1)
    \/ download_detection_pdf("c1", 1)

AskPrices ==
    \/ market_prices("c1", TRUE)
    \/ update_prices_route("c1", TRUE)
    \/ price_prediction("c1", [i \in 1..ForecastDays |-> Returns(15200, 1)],
                        [i \in 1..ForecastDays |-> 2],
                        [red |-> [i \in 1..ForecastDays |-> 0],
                         white |-> [i \in 1..ForecastDays |-> 0]])
    \/ \E p \in AdminPrices : update_prices("c1", p.source, p.red, p.white, p.grade)

AskIrrigation ==
    \/ smart_irrigation("c1", "GET", "", NoField)
    \/ clear_all_irrigation("c1")

AskProfile ==
    profile("c1", [ProfileForm("update_profile", "", "", "", "", "") EXCEPT
                      !.location = "Puttur", !.farm_size = ""])

AskSettings ==
    \/ update_system_settings("c1", <<Field(TRUE, "site_name", "Hosa Adike")>>)
    \/ reset_setting("c1", "site_name")

AskPage ==
    \/ \E page \in AdminPages : admin_page("c1", page)
    \/ \E page \in UserPages : user_page("c1", page)

NextAccess ==
    \/ SignInFirst \/ Logout \/ AskUpload \/ AskDetection \/ AskPrices \/ AskIrrigation
    \/ AskProfile \/ AskSettings \/ AskPage

SpecAccess == InitAccess /\ [][NextAccess]_vars

\* ---- The whole program ----
Next ==
    \/ Classify \/ Upload \/ ViewPrices \/ RefreshPrices \/ AdminInsertPrice
    \/ Forecast \/ ForecastAnonymous \/ ViewFetched \/ Login \/ Logout \/ Tick
    \/ VisitIrrigation \/ Simulate \/ ManualPump \/ OtherIrrigationPost \/ ClearIrrigation
    \/ DeleteOne \/ ClearAll \/ ViewOne \/ DownloadOne
    \/ Register \/ EditProfile \/ UpdateSettings \/ ResetSetting \/ AskPage
    \/ RefreshRead \/ RefreshWrite \/ IrrigationRead \/ IrrigationWrite

Spec == Init /\ [][Next]_vars

(***************************************************************************)
(* Properties of the detection workflow (checked under SpecDetect).        *)
(***************************************************************************)
\* The per-model result of classifier k in predict_disease's result.
ResultOf(predictions, k) ==
    predictions[CHOOSE i \in 1..Len(predictions) : predictions[i].key = k]

\* The results of the classifiers in predict_disease's result.
ClassifierResults(predictions) ==
    {predictions[i] : i \in {j \in 1..Len(predictions) : predictions[j].key \in ClassifierKeys}}

\* The request answered last was an upload that predict_disease classified.
Classified == last.op = "disease_detection" /\ last.predictions # NoPredictions

\* The request answered last persisted a detection.
Saved == last.op = "disease_detection" /\ last.outcome = "detection_result"

\* The row the last request persisted.
SavedRow == detections[CHOOSE i \in 1..Len(detections) : detections[i].id = last.detection_id]

\* C1 as stated: every classifier that ran and returned p is reported
\* Infected with confidence exactly 100*p when p > 0.5, and Healthy with
\* confidence exactly 100*(1-p) when p <= 0.5.
C1_ExactConfidence ==
    Classified =>
        \A k \in DOMAIN last.probs :
            LET p == last.probs[k]
                r == ResultOf(last.predictions, k)
            IN  IF 2 * p > ProbScale
                THEN r.status = "Infected" /\ r.confidence * ProbScale = 10000 * p
                ELSE r.status = "Healthy" /\ r.confidence * ProbScale = 10000 * (ProbScale - p)

\* C1 amended: every classifier that ran and returned p is reported Infected
\* when p > 0.5 and Healthy when p <= 0.5 (0.5 included), with confidence
\* 100*p, respectively 100*(1-p), rounded to two decimals (within 0.005).
C1_RoundedConfidence ==
    Classified =>
        \A k \in DOMAIN last.probs :
            LET p == last.probs[k]
                r == ResultOf(last.predictions, k)
                exact == IF 2 * p > ProbScale THEN 10000 * p ELSE 10000 * (ProbScale - p)
                error == r.confidence * ProbScale - exact
            IN  /\ r.status = (IF 2 * p > ProbScale THEN "Infected" ELSE "Healthy")
                /\ 2 * error <= ProbScale
                /\ 2 * error >= 0 - ProbScale

\* C1 witness: one classifier returned exactly 0.5 and was reported Healthy,
\* the other returned 0.50004 and was reported Infected at 50.00.
C1_Witness ==
    /\ Classified
    /\ DOMAIN last.probs = ClassifierKeys
    /\ last.probs["yellow_leaf"] = 50000
    /\ last.probs["fruit_rot"] = 50004
    /\ ResultOf(last.predictions, "yellow_leaf").status = "Healthy"
    /\ ResultOf(last.predictions, "fruit_rot").confidence = 5000

\* Both classifiers ran on the last upload and both report Infected.
BothInfected ==
    /\ Saved
    /\ last.detection_type = "both"
    /\ DOMAIN last.probs = ClassifierKeys
    /\ \A r \in ClassifierResults(last.predictions) : r.status = "Infected"

\* C2: when both classifiers report Infected, the persisted disease and
\* confidence are those of the strictly more confident one, and those of
\* yellow_leaf, which is evaluated first, when the confidences are equal.
C2_HigherConfidenceWins ==
    BothInfected =>
        LET y == ResultOf(last.predictions, "yellow_leaf")
            f == ResultOf(last.predictions, "fruit_rot")
            winner == IF f.confidence > y.confidence THEN f ELSE y
        IN  /\ SavedRow.disease_name = winner.disease
            /\ SavedRow.confidence = winner.confidence
            /\ y.confidence = f.confidence => SavedRow.disease_name = "Yellow Leaf Disease"

\* C2 witness: a tie between two infected results (0.9 and 0.90004 both give
\* 90.00) was persisted.
C2_Witness ==
    /\ BothInfected
    /\ last.probs["yellow_leaf"] # last.probs["fruit_rot"]
    /\ ResultOf(last.predictions, "yellow_leaf").confidence =
       ResultOf(last.predictions, "fruit_rot").confidence

\* C3 as stated: when a classifier ran and none reports Infected, the
\* persisted row is Healthy with the maximum of the classifiers' confidences.
C3_HealthyConfidence ==
    (/\ Saved
     /\ ClassifierResults(last.predictions) # {}
     /\ \A r \in ClassifierResults(last.predictions) : r.status = "Healthy")
    => /\ SavedRow.disease_name = "Healthy"
       /\ SavedRow.confidence =
            MaxOf({r.confidence : r \in ClassifierResults(last.predictions)})

\* C4 as stated: a row is persisted only for an upload on which a classifier
\* was invoked and returned a probability.
C4_RowNeedsClassifier ==
    Saved => DOMAIN last.probs # {}

\* C5: when predict_disease yields no result for an accepted upload, the
\* rows are unchanged and the file just written is absent.
C5_FailureLeavesNothing ==
    [][(last'.op = "disease_detection" /\ last'.outcome = "error_processing_image")
        => (detections' = detections /\ last'.path \notin files')]_vars

\* C5 witness: a classifier was invoked and raised while a row of an earlier
\* upload is stored.
C5_Witness ==
    /\ last.op = "disease_detection"
    /\ last.outcome = "error_processing_image"
    /\ last.invoked # {}
    /\ detections # <<>>
    /\ last.path \notin files

\* The file name has no extension, or one outside the four image extensions.
NoImageExtension(filename) ==
    \/ Len(filename) < 2
    \/ lower(filename[Len(filename)]) \notin {"png", "jpg", "jpeg", "gif"}

\* C6: an upload whose file name has no extension or an extension
\* (case-insensitive, after the last dot) outside {png, jpg, jpeg, gif}
\* writes no file, invokes no classifier and creates no row.
C6_BadExtensionRejected ==
    [][(/\ last'.op = "disease_detection"
        /\ last'.has_image
        /\ NoImageExtension(last'.filename))
        => (/\ files' = files
            /\ detections' = detections
            /\ last'.invoked = {}
            /\ last'.path = NoPath)]_vars

\* C6 witness: "leaf.png.exe" was rejected for its file type.
C6_Witness ==
    /\ last.op = "disease_detection"
    /\ last.outcome = "invalid_file_type"
    /\ last.filename = <<"leaf", "png", "exe">>

(***************************************************************************)
(* Properties of market price maintenance (checked under SpecPrice).       *)
(***************************************************************************)
\* The step is a market_prices page view that was rendered.
PriceView == last'.op = "market_prices" /\ last'.outcome = "rendered"

\* The step ran update_market_prices.
RefreshStep == last'.op \in {"market_prices", "update_prices_route"} /\ last'.refreshed

\* The rows dated on the calendar day of the clock.
TodayRows(table) == {i \in 1..Len(table) : Day(table[i].date) = Day(now)}

\* C7 as stated: a page view refreshes iff there is no row or the most
\* recent row is dated on an earlier calendar day than the current date.
C7_CalendarDayRefresh ==
    [][PriceView =>
        (last'.refreshed <=>
            \/ prices = <<>>
            \/ \A i \in LatestPrices : Day(now) - Day(prices[i].date) >= 1)]_vars

\* C7 amended: a page view refreshes iff there is no row or at least one
\* whole day (24 hours) has elapsed since the most recent row's date; a
\* newest row dated today never triggers a refresh, and one dated on the
\* previous calendar day does only when 24 hours have elapsed.
C7_ElapsedDayRefresh ==
    [][PriceView =>
        /\ last'.refreshed <=>
            \/ prices = <<>>
            \/ \A i \in LatestPrices : now - prices[i].date >= TicksPerDay
        /\ (\E i \in LatestPrices : Day(prices[i].date) = Day(now)) => ~last'.refreshed]_vars

\* C7 witness: a page view did not refresh although the newest row is dated
\* on the previous calendar day.
C7_Witness ==
    /\ last.op = "market_prices"
    /\ last.outcome = "rendered"
    /\ ~last.refreshed
    /\ \A i \in LatestPrices : Day(prices[i].date) = Day(now) - 1

\* C8: a refresh of a store with at most one row dated today leaves exactly
\* one row dated today, holding the prices of that refresh, and appends
\* nothing when the row existed: a second refresh on the day updates in place.
C8_RefreshIdempotent ==
    [][(RefreshStep /\ Cardinality(TodayRows(prices)) <= 1) =>
        /\ Cardinality(TodayRows(prices')) = 1
        /\ \A i \in TodayRows(prices') :
              /\ prices'[i].red_arecanut_price = last'.result.data.red_arecanut_price
              /\ prices'[i].white_arecanut_price = last'.result.data.white_arecanut_price
        /\ Cardinality(TodayRows(prices)) = 1 =>
              /\ Len(prices') = Len(prices)
              /\ last'.result.action = "updated"
        /\ Cardinality(TodayRows(prices)) = 0 =>
              /\ Len(prices') = Len(prices) + 1
              /\ last'.result.action = "created"]_vars

\* C8 witness: a refresh updated today's only row in place with the prices
\* of the fallback table, after the seeding fetched live prices.
C8_Witness ==
    /\ last.op \in {"market_prices", "update_prices_route"}
    /\ last.refreshed
    /\ last.result.action = "updated"
    /\ ~last.fetch_ok
    /\ Cardinality(TodayRows(prices)) = 1
    /\ \A i \in TodayRows(prices) : prices[i].red_arecanut_price = 14500
    /\ prices[1].red_arecanut_price = 15000

Forecasted == last.op = "price_prediction" /\ last.outcome = "rendered"

\* C10: price_prediction produces exactly 15 entries, one for each of the
\* next 15 days in order, whenever at least one MarketPrice row lies in the
\* 30-day window, on the regression path, on the fallback path and when the
\* regression raises part-way through its loop; it produces no entry when no
\* row lies in the window.
C10_FifteenOrNone ==
    Forecasted =>
        IF HistoricalPrices # <<>>
        THEN /\ Len(last.predictions) = ForecastDays
             /\ \A i \in 1..ForecastDays : last.predictions[i].date = Day(now) + i
        ELSE last.predictions = <<>>

\* A regression that raised after some entries were made, and the forecast
\* of 15 entries that replaced them.
C10_Witness ==
    /\ Forecasted
    /\ last.path = "regression_failed"
    /\ last.calls > 1
    /\ Len(last.predictions) = ForecastDays
    /\ Day(now) > 0

\* C11: the regression model's predict is never invoked when the history
\* has fewer than 14 points or no regression model is loaded; every entry
\* of the forecast then is the fallback generator's.
C11_NoRegressionOnShortHistory ==
    (Forecasted /\ (Len(HistoricalPrices) < MinHistory \/ ~price_model)) =>
        /\ last.calls = 0
        /\ \E fallback_noise \in FallbackNoises :
              last.predictions =
                  generate_simple_predictions(HistoricalPrices, fallback_noise)

\* C11 witness: a loaded regression model, 13 points of history, and a
\* forecast of 15 entries.
C11_Witness ==
    /\ Forecasted
    /\ price_model
    /\ Len(HistoricalPrices) = MinHistory - 1
    /\ Len(last.predictions) = ForecastDays

\* The sum and the number of the trailing 7 actual red prices.
RecentSum == SumRed(HistoricalPrices, RecentRows)

RecentN == RecentCount(HistoricalPrices)

OutsideBand(r) == r.num < LowestRealistic * r.den \/ r.num > HighestRealistic * r.den

WhiteIsScaledRed(entry) ==
    /\ 100 * entry.white - 115 * entry.red <= 108
    /\ 115 * entry.red - 100 * entry.white <= 108

\* C13 as stated: in every entry of every forecast the white price is the
\* red price scaled by 1.15.
C13_WhiteScaledEverywhere ==
    Forecasted => \A i \in 1..Len(last.predictions) : WhiteIsScaledRed(last.predictions[i])

\* C13 amended: on the regression path the white price of every entry is
\* the red prediction scaled by 1.15; on the fallback paths it is the last
\* known white price plus a perturbation of its own in [-20, 30], as the red
\* price is the last known red price plus one.
C13_WhiteScaledOnRegression ==
    Forecasted =>
        \A i \in 1..Len(last.predictions) :
            LET entry == last.predictions[i]
                last_price == HistoricalPrices[Len(HistoricalPrices)]
            IN  IF last.path = "regression"
                THEN /\ WhiteIsScaledRed(entry)
                     /\ ~OutsideBand(last.raw[i]) =>
                           entry.white = RoundHalfEven(last.raw[i].num * WhitePremium,
                                                       last.raw[i].den * 100)
                ELSE /\ entry.white - last_price.white_arecanut_price \in (0 - 2000)..3000
                     /\ entry.red - last_price.red_arecanut_price \in (0 - 2000)..3000

\* C13 witness: a fallback forecast after a failed regression whose white
\* price is not its red price scaled, and whose perturbations differ.
C13_Witness ==
    /\ Forecasted
    /\ last.path = "regression_failed"
    /\ Len(last.predictions) = ForecastDays
    /\ ~WhiteIsScaledRed(last.predictions[1])
    /\ LET last_price == HistoricalPrices[Len(HistoricalPrices)] IN
          last.predictions[1].white - last_price.white_arecanut_price
              # last.predictions[1].red - last_price.red_arecanut_price

(***************************************************************************)
(* Properties of the irrigation manager (checked under SpecIrrigation).    *)
(***************************************************************************)
\* The step is a completed /smart-irrigation request of a logged-in user.
IrrigationStep ==
    /\ last'.op = "smart_irrigation"
    /\ last'.outcome # "login_required"

\* The user of the request of the step.
StepUser == session[last'.client].user_id

\* The status of the user's pump, "none" before the row exists.
StatusOf(table, user_id) ==
    IF PumpsOf(table, user_id) = {} THEN "none" ELSE table[PumpOf(table, user_id)].status

\* The reading a simulate form supplies, when it is a number.
IsReading(field) == field = NoField \/ (field.kind = "float" /\ ~field.float.nan)

ReadingOf(field) == IF field = NoField THEN DefaultMoisture ELSE field.float.value

SimulatedReading ==
    /\ last.op = "smart_irrigation"
    /\ last.method = "POST"
    /\ last.action = "simulate"
    /\ last.outcome = "rendered"
    /\ IsReading(last.field)

\* C15: a reading m is classified Low with the water-required message when
\* m < 30, High with the waterlogging message when m > 80, and Optimal when
\* 30 <= m <= 80; the values 30 and 80 are Optimal.
C15_MoistureClasses ==
    SimulatedReading =>
        LET m == ReadingOf(last.field)
            log == irrigation_logs[Len(irrigation_logs)]
        IN  /\ m < 30 =>
                 /\ last.status = "Low"
                 /\ log.message = "Water required now. Soil moisture is low."
            /\ m > 80 =>
                 /\ last.status = "High"
                 /\ log.message = "Waterlogging detected - stop irrigation immediately!"
            /\ (30 <= m /\ m <= 80) =>
                 /\ last.status = "Optimal"
                 /\ log.message = "Soil moisture is optimal. No action needed."

\* C15 witness: the reading 30 was classified Optimal.
C15_Witness ==
    /\ SimulatedReading
    /\ ReadingOf(last.field) = 30
    /\ last.status = "Optimal"

\* The rows of irrigation_logs of type Manual of a user.
ManualLogsOf(user_id) ==
    {i \in 1..Len(irrigation_logs) :
        /\ irrigation_logs[i].user_id = user_id
        /\ irrigation_logs[i].action_type = "Manual"}

\* C16: every manual pump action sets the user's pump status to the
\* requested value and appends exactly one irrigation log, of type Manual,
\* whose pump_status is the pump's state after the action; and in every
\* state the most recent Manual log of a user agrees with the user's pump
\* status.
C16_ManualLogged ==
    /\ [][(IrrigationStep /\ last'.method = "POST" /\ last'.action \in {"ON", "OFF"}) =>
             /\ StatusOf(pumps', StepUser) = last'.action
             /\ Len(irrigation_logs') = Len(irrigation_logs) + 1
             /\ SubSeq(irrigation_logs', 1, Len(irrigation_logs)) = irrigation_logs
             /\ LET log == irrigation_logs'[Len(irrigation_logs')] IN
                   /\ log.user_id = StepUser
                   /\ log.action_type = "Manual"
                   /\ log.pump_status = StatusOf(pumps', StepUser)
       ]_vars
    /\ [](\A i \in 1..Len(users) :
             LET manual == ManualLogsOf(users[i].id) IN
             manual # {} =>
                 irrigation_logs[CHOOSE m \in manual : \A k \in manual : k <= m].pump_status
                     = StatusOf(pumps, users[i].id))

\* C16 witness: a pump that was turned ON was turned OFF, and both actions
\* are in the log.
C16_Witness ==
    /\ last.op = "smart_irrigation"
    /\ last.action = "OFF"
    /\ Len(irrigation_logs) >= 2
    /\ irrigation_logs[Len(irrigation_logs)].pump_status = "OFF"
    /\ irrigation_logs[Len(irrigation_logs) - 1].pump_status = "ON"
    /\ irrigation_logs[Len(irrigation_logs) - 1].action_type = "Manual"
    /\ irrigation_logs[Len(irrigation_logs) - 1].user_id
           = irrigation_logs[Len(irrigation_logs)].user_id
    /\ StatusOf(pumps, irrigation_logs[Len(irrigation_logs)].user_id) = "OFF"

\* C17 as stated: in every state each irrigation log has a non-null
\* soil_moisture iff its type is Simulation, a type in {Manual, Simulation}
\* and a pump_status in {ON, OFF}.
C17_MoistureIffSimulation ==
    \A i \in 1..Len(irrigation_logs) :
        /\ (irrigation_logs[i].soil_moisture # Null)
               <=> (irrigation_logs[i].action_type = "Simulation")
        /\ irrigation_logs[i].action_type \in {"Manual", "Simulation"}
        /\ irrigation_logs[i].pump_status \in {"ON", "OFF"}

\* C18: each user has at most one pump_status row, its status is ON or OFF,
\* and a user's first visit of the irrigation page (GET or POST) creates the
\* row with status OFF, which a manual action of the same request then sets.
C18_OnePumpPerUser ==
    /\ [](\A i \in 1..Len(users) :
             /\ Cardinality(PumpsOf(pumps, users[i].id)) <= 1
             /\ StatusOf(pumps, users[i].id) \in {"none", "ON", "OFF"})
    /\ [][(IrrigationStep /\ StatusOf(pumps, StepUser) = "none") =>
             /\ Len(pumps') = Len(pumps) + 1
             /\ SubSeq(pumps', 1, Len(pumps)) = pumps
             /\ pumps'[Len(pumps')].user_id = StepUser
             /\ pumps'[Len(pumps')].status =
                   IF last'.method = "POST" /\ last'.action \in {"ON", "OFF"}
                   THEN last'.action ELSE "OFF"
       ]_vars
    /\ [][(IrrigationStep /\ StatusOf(pumps, StepUser) # "none") =>
             Len(pumps') = Len(pumps)]_vars

\* C18 witness: both users have visited the page, the second by a GET that
\* created a row with status OFF next to the first user's row.
C18_Witness ==
    /\ last.op = "smart_irrigation"
    /\ last.method = "GET"
    /\ Len(pumps) = 2
    /\ pumps[2].user_id = session[last.client].user_id
    /\ pumps[2].status = "OFF"
    /\ pumps[1].user_id # pumps[2].user_id
    /\ irrigation_logs # <<>>

(***************************************************************************)
(* Properties of the deletion of detections (checked under SpecDelete).    *)
(***************************************************************************)
\* The rows of a table that are not of user_id, in order.
RowsOfOthers(table, user_id) ==
    DeleteRows(table, {i \in 1..Len(table) : table[i].user_id = user_id})

Verified(phone, password) ==
    {i \in 1..Len(users) :
        /\ users[i].phone = phone
        /\ users[i].password_hash = generate_password_hash(password)}

\* C20: a login whose password does not verify against the stored hash of
\* the user of the given phone, or whose phone is no user's, leaves every
\* session as it was (it sets no user_id) and answers with the
\* invalid-credentials message; a login with the registered password sets
\* the session's user_id to that user's id.
C20_FailedLoginKeepsSession ==
    [][last'.op = "login" =>
          IF Verified(last'.phone, last'.password) = {}
          THEN /\ session' = session
               /\ last'.outcome = "invalid_credentials"
          ELSE /\ \E i \in Verified(last'.phone, last'.password) :
                     session'[last'.client].user_id = users[i].id
               /\ last'.outcome = "welcome_back"
               /\ \A c \in Clients \ {last'.client} : session'[c] = session[c]
    ]_vars

\* C20 witness: the password wrong1 for a registered phone was refused, and
\* the client has no session.
C20_Witness ==
    /\ last.op = "login"
    /\ last.phone = PhoneEnding("1")
    /\ last.password = "wrong1"
    /\ last.outcome = "invalid_credentials"
    /\ session[last.client] = AnonymousSession
    /\ \E c \in Clients : session[c].user_id = 2

(***************************************************************************)
(* Properties of the accounts (checked under SpecAccounts).                *)
(***************************************************************************)
\* The phones and the non-null emails of the rows of a user table other than
\* the row of the user with this id.
PhonesBut(table, id) == {table[i].phone : i \in {j \in 1..Len(table) : table[j].id # id}}

EmailsBut(table, id) ==
    UNION {table[i].email : i \in {j \in 1..Len(table) : table[j].id # id}}

TenDigits(phone) ==
    /\ Len(phone) = 10
    /\ \A i \in 1..Len(phone) :
          phone[i] \in {"0", "1", "2", "3", "4", "5", "6", "7", "8", "9"}

\* The user table is well formed: 10-digit phones, no phone twice, no
\* non-null email twice.
UsersWellFormed ==
    /\ \A i \in 1..Len(users) : TenDigits(users[i].phone)
    /\ \A i, j \in 1..Len(users) :
          i # j => /\ users[i].phone # users[j].phone
                   /\ users[i].email \cap users[j].email = {}

\* The registration answered in this step submitted a phone of bad format,
\* passwords that differ, a phone some user has or an email some user has.
ViolatingRegistration ==
    /\ last'.op = "register"
    /\ \/ ~TenDigits(last'.form.phone)
       \/ last'.form.password # last'.form.confirm_password
       \/ last'.form.phone \in PhonesBut(users, NoUser)
       \/ last'.form.email \in EmailsBut(users, NoUser)

\* The profile update answered in this step submitted an email another user
\* has, or new passwords that differ.
ViolatingProfile ==
    /\ last'.op = "profile"
    /\ session[last'.client].user_id # NoUser
    /\ \/ /\ last'.form.action = "update_profile"
          /\ last'.form.email \in EmailsBut(users, session[last'.client].user_id)
       \/ /\ last'.form.action = "change_password"
          /\ last'.form.new_password # last'.form.confirm_password

\* C21: in every state reached through registrations and profile updates
\* each user's phone is exactly 10 digits, no two users share a phone and no
\* two users share a non-null email; a registration or profile update that
\* would violate this (bad phone format, mismatched passwords, duplicate
\* phone or email) leaves the user table unchanged.
C21_UsersWellFormed ==
    /\ []UsersWellFormed
    /\ [][ViolatingRegistration \/ ViolatingProfile => users' = users]_vars

\* A second account exists, and the request answered last was a registration
\* with the phone of the first account, or a profile update with the email
\* of the other account.
C21_Witness ==
    /\ Len(users) = 2
    /\ \/ /\ last.op = "register"
          /\ last.form.phone = users[1].phone
          /\ last.outcome = "phone_registered"
       \/ /\ last.op = "profile"
          /\ last.outcome = "email_in_use"

\* C22 as stated: every user row's user_type is Farmer or Developer.
C22_UserTypeKnown ==
    \A i \in 1..Len(users) : users[i].user_type \in {"Farmer", "Developer"}

(***************************************************************************)
(* Properties of the system settings (checked under SpecSettings).         *)
(***************************************************************************)
\* The client whose request was answered last is logged in as a Developer.
ByDeveloper ==
    /\ session[last.client].user_id # NoUser
    /\ \E i \in 1..Len(users) :
          /\ users[i].id = session[last.client].user_id
          /\ users[i].user_type = "Developer"

\* The row of settings with this key.
RowOf(table, key) == table[CHOOSE i \in 1..Len(table) : table[i].setting_key = key]

HasKey(table, key) == \E i \in 1..Len(table) : table[i].setting_key = key

\* C23 as stated: after a logged-in Developer submits update_system_settings
\* with field setting_<k> = v for an existing key k, the stored value of k
\* is v ('true' if v is 'on', otherwise 'false', for a boolean k) and the
\* request reports success.
C23_UpdateStores ==
    (last.op = "update_system_settings" /\ ByDeveloper) =>
        /\ last.outcome = "successfully_updated"
        /\ \A i \in 1..Len(last.input) :
              LET f == last.input[i] IN
              (/\ f.is_setting
               /\ HasKey(settings, f.key)
               /\ \A j \in (i + 1)..Len(last.input) : last.input[j].key # f.key)
              => RowOf(settings, f.key).setting_value =
                    IF RowOf(settings, f.key).setting_type = "boolean"
                    THEN (IF f.value = "on" THEN "true" ELSE "false")
                    ELSE f.value

SettingsRequestFailed ==
    \/ last'.op = "update_system_settings" /\ last'.outcome = "error_updating"
    \/ last'.op = "reset_setting" /\ last'.outcome = "error_resetting"

\* C29: when a settings update request fails, the transaction is rolled
\* back: after the request every row's setting_value, updated_by and
\* updated_at equal their values before the request.  The same holds for a
\* reset that fails.
C29_FailedUpdateRolledBack ==
    [][SettingsRequestFailed =>
          /\ Len(settings') = Len(settings)
          /\ \A i \in 1..Len(settings) :
                /\ settings'[i].setting_value = settings[i].setting_value
                /\ settings'[i].updated_by = settings[i].updated_by
                /\ settings'[i].updated_at = settings[i].updated_at]_vars

\* An update that submitted a new site name failed.
C29_Witness ==
    /\ last.op = "update_system_settings"
    /\ last.outcome = "error_updating"
    /\ \E i \in 1..Len(last.input) :
          /\ last.input[i].is_setting
          /\ last.input[i].key = "site_name"
          /\ RowOf(settings, "site_name").setting_value # last.input[i].value
(***************************************************************************)
(* Ownership of detections (checked under SpecDelete).                     *)
(***************************************************************************)
\* The rows with this id that belong to somebody other than this user.
RowsOfAnother(detection_id, user_id) ==
    {i \in 1..Len(detections) :
        detections[i].id = detection_id /\ detections[i].user_id # user_id}

\* C26: a delete_detection by a logged-in user other than the row's owner,
\* a Developer included, leaves the rows and the image files as they were;
\* clear_all_detections removes no row of another user; the page and the
\* PDF of a detection are given only to its owner or to a Developer.
C26_OwnerOnly ==
    [][LET c == last'.client
           user_id == session[c].user_id
       IN
       /\ (/\ last'.op = "delete_detection"
           /\ user_id # NoUser
           /\ RowsOfAnother(last'.detection_id, user_id) # {})
          => detections' = detections /\ files' = files
       /\ (last'.op = "clear_all_detections")
          => \A i \in 1..Len(detections) :
                detections[i].user_id # user_id =>
                   \E j \in 1..Len(detections') : detections'[j] = detections[i]
       /\ (/\ last'.op \in {"detection_result", "download_detection_pdf"}
           /\ last'.outcome \in {"detection_result_page", "pdf_file"})
          => /\ user_id # NoUser
             /\ \E i \in 1..Len(detections), u \in 1..Len(users) :
                   /\ detections[i].id = last'.detection_id
                   /\ users[u].id = user_id
                   /\ \/ detections[i].user_id = user_id
                      \/ users[u].user_type = "Developer"
    ]_vars

\* A Developer asked to delete a detection of the farmer and was refused:
\* the row and its file are there.
C26_Witness ==
    /\ last.op = "delete_detection"
    /\ last.outcome = "access_denied"
    /\ session[last.client].user_type = "Developer"
    /\ \E i \in 1..Len(detections) :
          /\ detections[i].id = last.detection_id
          /\ detections[i].user_id # session[last.client].user_id
          /\ detections[i].image_path \in files

\* C30 as stated: the image_path of every persisted detection names a file
\* that is in the upload folder.
C30_ImagePresent ==
    \A i \in 1..Len(detections) : detections[i].image_path \in files
(***************************************************************************)
(* Requests served at the same time (checked under SpecRace).              *)
(***************************************************************************)
\* Client c's request finishes in this step.
Finishes(c, op) == inflight[c].op = op /\ inflight'[c] = Idle

\* C27: an update_market_prices that found no row of today when it asked
\* takes the create branch whatever another execution has committed in
\* between, no lock or second look preventing it: it adds a row dated now.
\* Two executions that both asked before either committed so leave two rows
\* of one calendar day (the witness).
C27_BothCreate ==
    [][\A c \in Clients :
          (Finishes(c, "update_market_prices") /\ inflight[c].existing_price = 0)
          => /\ Len(prices') = Len(prices) + 1
             /\ prices'[Len(prices')].date = now
             /\ SubSeq(prices', 1, Len(prices)) = prices]_vars

\* Both executions have committed, and two rows created on one calendar day
\* are stored.
C27_Witness ==
    /\ \A c \in Clients : inflight[c] = Idle
    /\ \E i, j \in 1..Len(prices) :
          /\ i < j
          /\ prices[i].id > SeedDays
          /\ Day(prices[i].date) = Day(prices[j].date)
          /\ Day(prices[i].date) = Day(now)

\* C28: a smart_irrigation request that found no pump row of its user when
\* it asked creates one whatever another request has committed in between:
\* neither the handler nor the table rejects a second row of the user.  Two
\* first requests that both asked before either committed so leave two pump
\* rows of one user (the witness).
C28_BothCreatePump ==
    [][\A c \in Clients :
          (Finishes(c, "smart_irrigation") /\ inflight[c].pump_status = 0)
          => /\ Len(pumps') = Len(pumps) + 1
             /\ pumps'[Len(pumps')].user_id = session[c].user_id
             /\ SubSeq(pumps', 1, Len(pumps)) = pumps]_vars

\* Both requests have been answered, and one user has two pump rows.
C28_Witness ==
    /\ \A c \in Clients : inflight[c] = Idle
    /\ \E i, j \in 1..Len(pumps) : i # j /\ pumps[i].user_id = pumps[j].user_id
(***************************************************************************)
(* Access control (checked under SpecAccess).                              *)
(***************************************************************************)
\* The routes behind admin_required and those behind login_required, by the
\* name the answer carries.
AdminRoutes ==
    {"admin_dashboard", "admin_users", "admin_detections", "update_prices",
     "system_settings", "update_system_settings", "reset_setting", "export_system_data"}

ProtectedRoutes ==
    {"profile", "user_dashboard", "delete_detection", "clear_all_detections",
     "clear_all_irrigation", "disease_detection", "detection_result",
     "download_detection_pdf", "disease_history", "weather_advisory", "market_prices",
     "update_prices_route", "price_prediction", "smart_irrigation"}

\* The session of client c holds a user_id; it is that of a Developer.
HoldsUser(c) == session[c].user_id # NoUser

HoldsDeveloper(c) ==
    /\ HoldsUser(c)
    /\ \E i \in 1..Len(users) :
          users[i].id = session[c].user_id /\ users[i].user_type = "Developer"

\* Every stored entity.
Stored == <<users, files, detections, prices, pumps, irrigation_logs, settings>>

\* C25: a request for an admin route by a session that holds no user_id of a
\* Developer, and a request for a login-protected route by a session that
\* holds no user_id, is answered by a redirect (to the login page, or to the
\* dashboard for a user who is no Developer) and changes no stored entity.
C25_RoutesGated ==
    [][/\ (last'.op \in AdminRoutes /\ ~HoldsDeveloper(last'.client))
          => /\ last'.outcome =
                   IF HoldsUser(last'.client) THEN "access_denied" ELSE "login_required"
             /\ Stored' = Stored
       /\ (last'.op \in ProtectedRoutes /\ ~HoldsUser(last'.client))
          => /\ last'.outcome = "login_required"
             /\ Stored' = Stored
      ]_vars

\* The farmer asked for the admin price update and was sent away, after a
\* Developer had added a row by it.
C25_Witness ==
    /\ last.op = "update_prices"
    /\ last.outcome = "access_denied"
    /\ HoldsUser(last.client)
    /\ ~HoldsDeveloper(last.client)
    /\ \E i \in 1..Len(prices) : prices[i].source = "Local Mandi"

====
